---------------------------- MODULE Spec2Model ----------------------------
(***************************************************************************)
(* A model of the Graph library of the Model-Checker repository.           *)
(*                                                                         *)
(* Part I models the mutable Graph class of src/app/scripts/graph.es6.js   *)
(* at the level of JavaScript objects: node and edge objects live in two   *)
(* heaps and are referred to by handle, so a caller may still hold a node  *)
(* that the graph has dropped, exactly as in the source.                   *)
(*                                                                         *)
(* Part II models the Graph class and Graph.Operations of                  *)
(* src/unnamed/part_000 (edges carry isHidden / isDeadlock flags there).   *)
(***************************************************************************)
EXTENDS Integers, Sequences, FiniteSets, TLC

(***************************************************************************)
(* JavaScript values and objects used as maps                              *)
(***************************************************************************)

\* The JavaScript value undefined, where an id or an object is expected.
undefined == -1

\* delete obj[k]
Del(f, k) == [x \in (DOMAIN f) \ {k} |-> f[x]]

\* obj[k] = v
Put(f, k, v) == [x \in (DOMAIN f) \cup {k} |-> IF x = k THEN v ELSE f[x]]

\* obj[k], undefined when the key is absent
Get(f, k) == IF k \in DOMAIN f THEN f[k] ELSE undefined

\* for-in visits integer-like keys in ascending order
Min(S) == CHOOSE x \in S : \A y \in S : x <= y

Max(S) == CHOOSE x \in S : \A y \in S : x >= y

\* The empty object {}
EmptyObj == [x \in {} |-> undefined]

(***************************************************************************)
(* Part I.  graph.es6.js                                                   *)
(*                                                                         *)
(* A graph g is a record                                                   *)
(*   nodeMap  : key -> node handle            (this._nodeMap)              *)
(*   edgeMap  : key -> edge handle            (this._edgeMap)              *)
(*   rootId   : id or undefined               (this._rootId)               *)
(*   alphabet : set of labels                 (keys of this._alphabet)     *)
(*   nodeCount, edgeCount                                                  *)
(*   nodeObjs : sequence of node objects, a handle is an index             *)
(*   edgeObjs : sequence of edge objects, a handle is an index             *)
(*   err      : "none", or the exception the running call has thrown       *)
(* A node object is [id, label, meta, edgesFromMe, edgesToMe], the two     *)
(* last being maps edge id -> edge handle.  An edge object is              *)
(* [id, from, to, label, isBroadcasting, isListening] with from and to     *)
(* node handles (this._from and this._to are node objects).  A label is a  *)
(* sequence of characters.                                                 *)
(***************************************************************************)

TAU == <<"tau">>

DELTA == <<"delta">>

\* new Graph()
NewGraph ==
  [nodeMap |-> EmptyObj, edgeMap |-> EmptyObj, rootId |-> undefined,
   alphabet |-> {}, nodeCount |-> 0, edgeCount |-> 0,
   nodeObjs |-> <<>>, edgeObjs |-> <<>>, err |-> "none"]

Throw(g, e) == IF g.err = "none" THEN [g EXCEPT !.err = e] ELSE g

\* get root(): this._nodeMap[this._rootId]
root(g) == Get(g.nodeMap, g.rootId)

\* getNode(id)
getNode(g, id) == Get(g.nodeMap, id)

\* Edge.from / Edge.to: this._graph._nodeMap[this._from.id]
EdgeFrom(g, e) == Get(g.nodeMap, g.nodeObjs[g.edgeObjs[e].from].id)

EdgeTo(g, e) == Get(g.nodeMap, g.nodeObjs[g.edgeObjs[e].to].id)

\* _setRootNodeById(id)
SetRootNodeById(g, id) == [g EXCEPT !.rootId = id]

\* set root(node): node is a node handle or undefined.  Every node object
\* the model holds was created by this graph, so node.graph === this.
SetRoot(g, node) ==
  IF g.err # "none" \/ node = root(g) THEN g
  ELSE IF node # undefined THEN SetRootNodeById(g, g.nodeObjs[node].id)
  ELSE [g EXCEPT !.rootId = undefined]

\* addNode(uid, label, metaData)
addNode(g, uid, label, metaData) ==
  IF g.err # "none" THEN g
  ELSE IF Get(g.nodeMap, uid) # undefined THEN Throw(g, "Graph.Exception")
  ELSE
    LET h  == Len(g.nodeObjs) + 1
        n  == [id |-> uid, label |-> label, meta |-> metaData,
               edgesFromMe |-> EmptyObj, edgesToMe |-> EmptyObj]
        g1 == [g EXCEPT !.nodeObjs = Append(@, n),
                        !.nodeMap = Put(@, uid, h),
                        !.nodeCount = @ + 1]
    IN IF root(g1) = undefined THEN SetRoot(g1, h) ELSE g1

\* The prefix handling of set label(lbl): [bare label, isBroadcasting, isListening]
StripLabel(lbl) ==
  LET bc == Len(lbl) > 0 /\ Head(lbl) = "!"
      l1 == IF bc THEN Tail(lbl) ELSE lbl
      ls == Len(l1) > 0 /\ Head(l1) = "?"
      l2 == IF ls THEN Tail(l1) ELSE l1
  IN [label |-> l2, isBroadcasting |-> bc, isListening |-> ls]

\* Edge: set label(lbl). old is the edge's label so far (<<"undefined">>
\* in the constructor, where this._label has not been assigned yet).
SetLabel(g, e, lbl) ==
  LET s == StripLabel(lbl)
  IN [g EXCEPT !.alphabet = (@ \ {g.edgeObjs[e].label}) \cup {s.label},
               !.edgeObjs[e].label = s.label,
               !.edgeObjs[e].isBroadcasting = s.isBroadcasting,
               !.edgeObjs[e].isListening = s.isListening]

\* addEdge(uid, from, to, label): from and to are node handles
addEdge(g, uid, from, to, label) ==
  IF g.err # "none" THEN g
  ELSE IF Get(g.edgeMap, uid) # undefined THEN Throw(g, "Graph.Exception")
  ELSE
    LET h  == Len(g.edgeObjs) + 1
        e0 == [id |-> uid, from |-> from, to |-> to, label |-> <<"undefined">>,
               isBroadcasting |-> FALSE, isListening |-> FALSE]
        g1 == SetLabel([g EXCEPT !.edgeObjs = Append(@, e0)], h, label)
        g2 == [g1 EXCEPT !.edgeMap = Put(@, uid, h),
                         !.edgeCount = @ + 1,
                         !.nodeObjs[from].edgesFromMe = Put(@, uid, h)]
        g3 == [g2 EXCEPT !.nodeObjs[to].edgesToMe = Put(@, uid, h)]
    IN [g3 EXCEPT !.alphabet = @ \cup {label}]

\* removeEdge(edge): edge is an edge handle
removeEdge(g, edge) ==
  IF g.err # "none" THEN g
  ELSE IF edge = undefined \/ Get(g.edgeMap, g.edgeObjs[edge].id) # edge THEN g
  ELSE
    LET id == g.edgeObjs[edge].id
        t  == EdgeTo(g, edge)
        f  == EdgeFrom(g, edge)
    IN IF t = undefined THEN Throw(g, "TypeError")
       ELSE LET g1 == [g EXCEPT !.nodeObjs[t].edgesToMe = Del(@, id)]
            IN IF f = undefined THEN Throw(g1, "TypeError")
               ELSE [g1 EXCEPT !.nodeObjs[f].edgesFromMe = Del(@, id),
                               !.edgeMap = Del(@, id),
                               !.edgeCount = @ - 1]

\* The for-in loops of removeNode over node._edgesToMe / node._edgesFromMe:
\* keys ascending, a key deleted before it is reached is not visited.
RECURSIVE RemoveEdgesToMe(_, _, _)
RemoveEdgesToMe(g, node, last) ==
  LET keys == {k \in DOMAIN g.nodeObjs[node].edgesToMe : k > last}
  IN IF g.err # "none" \/ keys = {} THEN g
     ELSE RemoveEdgesToMe(removeEdge(g, g.nodeObjs[node].edgesToMe[Min(keys)]),
                          node, Min(keys))

RECURSIVE RemoveEdgesFromMe(_, _, _)
RemoveEdgesFromMe(g, node, last) ==
  LET keys == {k \in DOMAIN g.nodeObjs[node].edgesFromMe : k > last}
  IN IF g.err # "none" \/ keys = {} THEN g
     ELSE RemoveEdgesFromMe(removeEdge(g, g.nodeObjs[node].edgesFromMe[Min(keys)]),
                            node, Min(keys))

\* removeNode(node): node is a node handle or undefined
removeNode(g, node) ==
  IF g.err # "none" THEN g
  ELSE IF node = undefined \/ Get(g.nodeMap, g.nodeObjs[node].id) # node THEN g
  ELSE
    LET id == g.nodeObjs[node].id
        g1 == RemoveEdgesFromMe(RemoveEdgesToMe(g, node, undefined), node, undefined)
        g2 == [g1 EXCEPT !.nodeMap = Del(@, id), !.nodeCount = @ - 1]
    IN IF g1.err # "none" THEN g1
       ELSE IF g2.rootId = id THEN SetRoot(g2, undefined) ELSE g2

\* Node: set id(newId).  The loop over the edges compares edge.from (a node
\* object or undefined) with oldId (a number), which is never equal.
SetNodeId(g, node, newId) ==
  LET oldId == g.nodeObjs[node].id
  IN IF g.err # "none" \/ newId = oldId THEN g
     ELSE [g EXCEPT !.nodeMap = Del(Put(@, newId, Get(g.nodeMap, oldId)), oldId),
                    !.nodeObjs[node].id = newId,
                    !.rootId = IF @ = oldId THEN newId ELSE @]

\* Edge.hideEdge()
hideEdge(g, e) == [g EXCEPT !.edgeObjs[e].label = TAU]

\* Edge.deadlockEdge()
deadlockEdge(g, e) == [g EXCEPT !.edgeObjs[e].label = DELTA]

\* Edge.isHidden / Edge.isDeadlock
isHidden(g, e) == g.edgeObjs[e].label = TAU

isDeadlock(g, e) == g.edgeObjs[e].label = DELTA

\* Node.edgesFromMe / Node.edgesToMe: the edges as an array, ascending key
RECURSIVE ObjValues(_)
ObjValues(f) ==
  IF DOMAIN f = {} THEN <<>>
  ELSE <<f[Min(DOMAIN f)]>> \o ObjValues(Del(f, Min(DOMAIN f)))

edgesFromMe(g, node) == ObjValues(g.nodeObjs[node].edgesFromMe)

edgesToMe(g, node) == ObjValues(g.nodeObjs[node].edgesToMe)

\* The values of an object used as a map, as a set
Range(f) == {f[x] : x \in DOMAIN f}

\* b's entries written over a's
Overlay(a, b) ==
  [x \in (DOMAIN a) \cup (DOMAIN b) |-> IF x \in DOMAIN b THEN b[x] ELSE a[x]]

\* An inner loop of removeDuplicateEdges that removes nothing
DupInnerKeepAll(g, edges, gone, j, k) == [g |-> g, gone |-> gone]

\* removeDuplicateEdges(), the two inner loops for one node: edges is the
\* array node.edgesFromMe, gone the indices deleted from it.  The test
\* reads edge1.to.id and edge2.to.id, a TypeError when an end is missing.
RECURSIVE DupInner(_, _, _, _, _)
DupInner(g, edges, gone, j, k) ==
  IF g.err # "none" \/ k > Len(edges) THEN [g |-> g, gone |-> gone]
  ELSE IF k \in gone \/ j = k THEN DupInner(g, edges, gone, j, k + 1)
  ELSE IF EdgeTo(g, edges[j]) = undefined \/ EdgeTo(g, edges[k]) = undefined
    THEN [g |-> Throw(g, "TypeError"), gone |-> gone]
  ELSE IF g.nodeObjs[EdgeTo(g, edges[j])].id = g.nodeObjs[EdgeTo(g, edges[k])].id
          /\ g.edgeObjs[edges[j]].label = g.edgeObjs[edges[k]].label
    THEN DupInner(removeEdge(g, edges[k]), edges, gone \cup {k}, j, k + 1)
  ELSE DupInner(g, edges, gone, j, k + 1)

RECURSIVE DupOuter(_, _, _, _)
DupOuter(g, edges, gone, j) ==
  IF g.err # "none" \/ j > Len(edges) THEN g
  ELSE IF j \in gone THEN DupOuter(g, edges, gone, j + 1)
  ELSE LET r == DupInner(g, edges, gone, j, 1)
       IN DupOuter(r.g, edges, r.gone, j + 1)

RECURSIVE DupNodes(_, _)
DupNodes(g, last) ==
  LET keys == {k \in DOMAIN g.nodeMap : k > last}
      i    == Min(keys)
  IN IF g.err # "none" \/ keys = {} THEN g
     ELSE IF g.nodeMap[i] = undefined THEN Throw(g, "TypeError")
     ELSE DupNodes(DupOuter(g, edgesFromMe(g, g.nodeMap[i]), {}, 1), i)

\* removeDuplicateEdges()
removeDuplicateEdges(g) == DupNodes(g, undefined)

\* A mergeNodes turn that removes node with its edges instead of moving them
MergeIntoDroppingEdges(g, mergedNode, node) == removeNode(g, node)

\* mergeNodes(nodeIds), one turn of its loop for the node object node that
\* is not the first: its edges are handed to mergedNode, then it is removed.
MergeInto(g, mergedNode, node) ==
  LET ef == g.nodeObjs[node].edgesFromMe
      g1 == [g EXCEPT
               !.edgeObjs = [h \in DOMAIN @ |->
                  IF h \in Range(ef) THEN [@[h] EXCEPT !.from = mergedNode] ELSE @[h]],
               !.nodeObjs[mergedNode].edgesFromMe =
                  Overlay(@, [k \in {g.edgeObjs[h].id : h \in Range(ef)} |->
                      CHOOSE h \in Range(ef) : g.edgeObjs[h].id = k])]
      g2 == [g1 EXCEPT !.nodeObjs[node].edgesFromMe = EmptyObj]
      et == g2.nodeObjs[node].edgesToMe
      g3 == [g2 EXCEPT
               !.edgeObjs = [h \in DOMAIN @ |->
                  IF h \in Range(et) THEN [@[h] EXCEPT !.to = mergedNode] ELSE @[h]],
               !.nodeObjs[mergedNode].edgesToMe =
                  Overlay(@, [k \in {g.edgeObjs[h].id : h \in Range(et)} |->
                      CHOOSE h \in Range(et) : g.edgeObjs[h].id = k])]
      g4 == [g3 EXCEPT !.nodeObjs[node].edgesToMe = EmptyObj]
  IN removeNode(g4, node)

\* The loop of mergeNodes from index i on
RECURSIVE MergeLoop(_, _, _, _, _, _)
MergeLoop(g, nodeIds, i, mergedNode, mergedMetaData, isRoot) ==
  IF g.err # "none" THEN g
  ELSE IF i > Len(nodeIds) THEN
    \* an empty nodeIds leaves mergedNode undefined: mergedNode._meta throws
    IF mergedNode = undefined THEN Throw(g, "TypeError")
    ELSE LET g1 == [g EXCEPT !.nodeObjs[mergedNode].meta = mergedMetaData]
         IN IF isRoot THEN SetRoot(g1, mergedNode) ELSE g1
  ELSE
    LET node == getNode(g, nodeIds[i])
    IN IF node = undefined THEN Throw(g, "TypeError")
       ELSE
         LET meta == Overlay(mergedMetaData, g.nodeObjs[node].meta)
             isR  == isRoot \/ g.nodeObjs[node].id = g.rootId
         IN IF mergedNode = undefined
              THEN MergeLoop(g, nodeIds, i + 1, node, meta, isR)
              ELSE MergeLoop(MergeInto(g, mergedNode, node), nodeIds, i + 1,
                             mergedNode, meta, isR)

\* mergeNodes(nodeIds)
mergeNodes(g, nodeIds) == MergeLoop(g, nodeIds, 1, undefined, EmptyObj, FALSE)

\* Node.neighbors: the ids of the nodes the edges from node lead to;
\* reachableNodes reads neighbors[i].id, a TypeError when an end is missing.
NeighborIds(g, node) ==
  {g.nodeObjs[EdgeTo(g, e)].id : e \in {x \in Range(g.nodeObjs[node].edgesFromMe) :
                                          EdgeTo(g, x) # undefined}}

NeighborMissing(g, node) ==
  \E e \in Range(g.nodeObjs[node].edgesFromMe) : EdgeTo(g, e) = undefined

\* get reachableNodes(): the depth-first search from rootId.  The result is
\* [ids, err]; the search throws when it pops an id that getNode does not
\* know (rootId itself when the graph has no root) or meets a missing end.
RECURSIVE Reach(_, _, _)
Reach(g, visited, stack) ==
  IF stack = {} THEN [ids |-> visited, err |-> "none"]
  ELSE LET id   == Min(stack)
           node == getNode(g, id)
       IN IF node = undefined \/ NeighborMissing(g, node)
            THEN [ids |-> visited \cup {id}, err |-> "TypeError"]
            ELSE Reach(g, visited \cup {id},
                       (stack \cup NeighborIds(g, node)) \ (visited \cup {id}))

reachableNodes(g) == Reach(g, {}, {g.rootId})

\* The loop of trim() over the keys of _nodeMap
RECURSIVE TrimLoop(_, _, _)
TrimLoop(g, reachable, last) ==
  LET keys == {k \in DOMAIN g.nodeMap : k > last}
      i    == Min(keys)
  IN IF g.err # "none" \/ keys = {} THEN g
     ELSE IF i \in reachable THEN TrimLoop(g, reachable, i)
     ELSE TrimLoop(removeNode(g, g.nodeMap[i]), reachable, i)

\* trim()
trim(g) ==
  LET r == reachableNodes(g)
  IN IF g.err # "none" THEN g
     ELSE IF r.err # "none" THEN Throw(g, r.err)
     ELSE TrimLoop(g, r.ids, undefined)

\* combineWith(other): other is another graph; its nodes, then its edges,
\* are added under their own ids unless this graph has the id already.
RECURSIVE CombineNodes(_, _, _)
CombineNodes(g, other, last) ==
  LET keys == {k \in DOMAIN other.nodeMap : k > last}
      key  == Min(keys)
      n    == other.nodeObjs[other.nodeMap[key]]
  IN IF g.err # "none" \/ keys = {} THEN g
     ELSE IF Get(g.nodeMap, n.id) = undefined
       THEN CombineNodes(addNode(g, n.id, n.label, n.meta), other, key)
       ELSE CombineNodes(g, other, key)

RECURSIVE CombineEdges(_, _, _)
CombineEdges(g, other, last) ==
  LET keys == {k \in DOMAIN other.edgeMap : k > last}
      key  == Min(keys)
      h    == other.edgeMap[key]
      e    == other.edgeObjs[h]
  IN IF g.err # "none" \/ keys = {} THEN g
     ELSE IF Get(g.edgeMap, e.id) = undefined
       THEN CombineEdges(
              addEdge(g, e.id,
                      getNode(g, other.nodeObjs[EdgeFrom(other, h)].id),
                      getNode(g, other.nodeObjs[EdgeTo(other, h)].id),
                      e.label),
              other, key)
       ELSE CombineEdges(g, other, key)

combineWith(g, other) == CombineEdges(CombineNodes(g, other, undefined), other, undefined)

(***************************************************************************)
(* The state machine of Part I: one Graph object and the calls a program   *)
(* can make on it, each with the objects the program can hold.             *)
(***************************************************************************)

\* graph, calls: the Graph object of Part I and the number of calls made on it.
\* heap, uids, args, res, orig: the state of Part II (declared here because
\* every specification constrains every variable).  issued: what a caller of
\* NodeUid and EdgeUid was handed, call by call.
VARIABLES graph, calls, heap, uids, args, res, orig, issued

vars == <<graph, calls, heap, uids, args, res, orig, issued>>

opsVars == <<heap, uids, args, res, orig, issued>>

\* Calls made on the graph in one run
MaxCalls == 5

\* Node objects and edge objects ever created on the graph
MaxNodeObjs == 2

MaxEdgeObjs == 2

\* Ids range over 0 .. MaxId
MaxId == 1

NodeIds == 0 .. MaxId

EdgeIds == 0 .. MaxId

\* Labels a caller passes: a, !a
Labels == {<<"a">>, <<"!", "a">>}

\* Meta data a caller passes
Metas == {EmptyObj, [k \in {"isTerminal"} |-> "stop"]}

NodeHandles == 1 .. Len(graph.nodeObjs)

EdgeHandles == 1 .. Len(graph.edgeObjs)

\* The nodes / edges the graph holds now
LiveNodes == {h \in NodeHandles : Get(graph.nodeMap, graph.nodeObjs[h].id) = h}

LiveEdges == {h \in EdgeHandles : Get(graph.edgeMap, graph.edgeObjs[h].id) = h}

\* A second graph, for combineWith: 0 -a-> 1
OtherGraph ==
  LET g2 == addNode(addNode(NewGraph, 0, <<>>, EmptyObj), 1, <<>>, EmptyObj)
  IN addEdge(g2, 0, 1, 2, <<"a">>)

\* Every call starts with no exception pending
Call == [graph EXCEPT !.err = "none"]

\* One more call is made
Counted == calls < MaxCalls /\ calls' = calls + 1 /\ UNCHANGED opsVars

\* No Graph.Operations call is under way in Part I.
OpsIdle ==
  /\ heap = <<>>
  /\ uids = [node |-> 0, edge |-> 0]
  /\ args = <<>>
  /\ res = [op |-> "none"]
  /\ orig = <<>>
  /\ issued = [node |-> <<>>, edge |-> <<>>]

Init == graph = NewGraph /\ calls = 0 /\ OpsIdle

AddNode ==
  /\ Counted
  /\ Len(graph.nodeObjs) < MaxNodeObjs
  /\ \E uid \in NodeIds, metaData \in Metas :
       graph' = addNode(Call, uid, <<>>, metaData)

AddEdge ==
  /\ Counted
  /\ Len(graph.edgeObjs) < MaxEdgeObjs
  /\ \E uid \in EdgeIds, from \in LiveNodes, to \in LiveNodes, label \in Labels :
       graph' = addEdge(Call, uid, from, to, label)

RemoveNode ==
  /\ Counted
  /\ \E node \in NodeHandles : graph' = removeNode(Call, node)

RemoveEdge ==
  /\ Counted
  /\ \E edge \in EdgeHandles : graph' = removeEdge(Call, edge)

RemoveDuplicateEdges ==
  /\ Counted
  /\ graph' = removeDuplicateEdges(Call)

MergeNodes ==
  /\ Counted
  /\ \E a \in NodeIds, b \in NodeIds :
       a # b /\ graph' = mergeNodes(Call, <<a, b>>)

Trim ==
  /\ Counted
  /\ graph' = trim(Call)

CombineWith ==
  /\ Counted
  /\ Len(graph.nodeObjs) + 2 <= MaxNodeObjs
  /\ Len(graph.edgeObjs) + 1 <= MaxEdgeObjs
  /\ graph' = combineWith(Call, OtherGraph)

AssignRoot ==
  /\ Counted
  /\ \E node \in NodeHandles \cup {undefined} : graph' = SetRoot(Call, node)

AssignNodeId ==
  /\ Counted
  /\ \E node \in LiveNodes, newId \in NodeIds : graph' = SetNodeId(Call, node, newId)

AssignLabel ==
  /\ Counted
  /\ \E e \in LiveEdges, label \in Labels : graph' = SetLabel(Call, e, label)

HideEdge ==
  /\ Counted
  /\ \E e \in LiveEdges : graph' = hideEdge(Call, e)

DeadlockEdge ==
  /\ Counted
  /\ \E e \in LiveEdges : graph' = deadlockEdge(Call, e)

Next ==
  \/ AddNode \/ AddEdge \/ RemoveNode \/ RemoveEdge \/ RemoveDuplicateEdges
  \/ MergeNodes \/ Trim \/ CombineWith \/ AssignRoot \/ AssignNodeId
  \/ AssignLabel \/ HideEdge \/ DeadlockEdge

Spec == Init /\ [][Next]_vars

(***************************************************************************)
(* Claims about the Graph object                                           *)
(***************************************************************************)

\* C1: every edge stored in the graph has a from-node and a to-node that
\* are both present in the graph's node set (Edge.from and Edge.to, which
\* look the end up in _nodeMap, are both defined).
C1_EdgeEndsPresent ==
  \A e \in LiveEdges : EdgeFrom(graph, e) # undefined /\ EdgeTo(graph, e) # undefined

\* C2: the root id is either unset or the id of a node that is in the graph
\* now; in particular removing the root node clears it.
C2_RootPresent ==
  graph.rootId = undefined \/ getNode(graph, graph.rootId) # undefined

\* C10: the alphabet is exactly the set of bare labels carried by the edges
\* that are in the graph now.
C10_AlphabetIsEdgeLabels ==
  graph.alphabet = {graph.edgeObjs[e].label : e \in LiveEdges}

\* The node objects / edge objects graph g holds
NodesOf(g) == {h \in 1 .. Len(g.nodeObjs) : Get(g.nodeMap, g.nodeObjs[h].id) = h}

EdgesOf(g) == {h \in 1 .. Len(g.edgeObjs) : Get(g.edgeMap, g.edgeObjs[h].id) = h}

\* The nodes of g that a path of directed edges leads to from the nodes in set
RECURSIVE Closure(_, _)
Closure(g, set) ==
  LET more == {EdgeTo(g, e) : e \in {x \in EdgesOf(g) : EdgeFrom(g, x) \in set}}
             \ {undefined}
  IN IF more \subseteq set THEN set ELSE Closure(g, set \cup more)

\* The nodes of g reachable from its root along directed edges
ReachableFromRoot(g) ==
  IF root(g) = undefined THEN {} ELSE Closure(g, {root(g)})

\* trim() kept exactly the reachable part of before: its nodes are the
\* reachable nodes, and every edge between two of them is still in place.
TrimmedTo(before, after) ==
  LET R == ReachableFromRoot(before)
  IN /\ NodesOf(after) = R
     /\ \A e \in EdgesOf(before) :
          EdgeFrom(before, e) \in R /\ EdgeTo(before, e) \in R
            => /\ e \in EdgesOf(after)
               /\ EdgeFrom(after, e) = EdgeFrom(before, e)
               /\ EdgeTo(after, e) = EdgeTo(before, e)
               /\ after.edgeObjs[e].label = before.edgeObjs[e].label

\* C11: after trim the remaining nodes are exactly the nodes that were
\* reachable from the root along directed edges: every remaining node is
\* reachable, and no reachable node and no edge between reachable nodes has
\* been removed.
C11_TrimKeepsReachable == [][Trim => TrimmedTo(graph, graph')]_vars

\* Meta data a with the keys of b added or overwritten
MetaUnion(a, b) ==
  [k \in DOMAIN a \cup DOMAIN b |-> IF k \in DOMAIN b THEN b[k] ELSE a[k]]

RECURSIVE MetaUnionOf(_, _, _)
MetaUnionOf(g, nodes, i) ==
  IF i = 0 THEN EmptyObj
  ELSE MetaUnion(MetaUnionOf(g, nodes, i - 1), g.nodeObjs[nodes[i]].meta)

\* The end of an edge after the nodes listed were merged into survivor
EndMerged(node, listed, survivor) == IF node \in listed THEN survivor ELSE node

\* mergeNodes(ids) took before to after as described: ids[1] survives under
\* its id, the other listed nodes are gone, every edge is kept with the
\* listed ends moved to the survivor, and the survivor has the united meta
\* data, later nodes overwriting earlier ones.
MergedAs(before, after, ids) ==
  LET nodes    == [i \in 1 .. Len(ids) |-> getNode(before, ids[i])]
      listed   == Range(nodes)
      survivor == nodes[1]
  IN /\ after.err = "none"
     /\ NodesOf(after) = (NodesOf(before) \ listed) \cup {survivor}
     /\ after.nodeObjs[survivor].id = ids[1]
     /\ after.nodeObjs[survivor].meta = MetaUnionOf(before, nodes, Len(ids))
     /\ EdgesOf(after) = EdgesOf(before)
     /\ \A e \in EdgesOf(before) :
          /\ EdgeFrom(after, e) = EndMerged(EdgeFrom(before, e), listed, survivor)
          /\ EdgeTo(after, e) = EndMerged(EdgeTo(before, e), listed, survivor)
          /\ after.edgeObjs[e].label = before.edgeObjs[e].label

\* The call was rejected: a Graph.Exception, and the graph as it was
Rejected == graph' = Throw(Call, "Graph.Exception")

\* C19: node ids and edge ids stay unique: addNode or addEdge with an id in
\* use, and assigning a node the id of another node, are rejected with a
\* Graph.Exception and leave the graph unchanged.
C19_UsedIdRejected ==
  [][/\ \A uid \in NodeIds, metaData \in Metas :
          /\ AddNode
          /\ graph' = addNode(Call, uid, <<>>, metaData)
          /\ getNode(graph, uid) # undefined
          => Rejected
     /\ \A uid \in EdgeIds, from \in LiveNodes, to \in LiveNodes, label \in Labels :
          /\ AddEdge
          /\ graph' = addEdge(Call, uid, from, to, label)
          /\ Get(graph.edgeMap, uid) # undefined
          => Rejected
     /\ \A node \in LiveNodes, newId \in NodeIds :
          /\ AssignNodeId
          /\ graph' = SetNodeId(Call, node, newId)
          /\ getNode(graph, newId) \notin {undefined, node}
          => Rejected]_vars

(***************************************************************************)
(* The operations of the Graph object applied to graphs a caller built     *)
(* with addNode and addEdge: graph is the object, orig[1] the graph as it  *)
(* was before the call and res the call that was made.                     *)
(***************************************************************************)

\* node.getMetaData(key) === value, for a value that is not undefined
MetaIs(g, node, key, value) ==
  key \in DOMAIN g.nodeObjs[node].meta /\ g.nodeObjs[node].meta[key] = value

\* processStopNodes(), the loop over the keys of _nodeMap
RECURSIVE StopLoop(_, _)
StopLoop(g, last) ==
  LET keys == {k \in DOMAIN g.nodeMap : k > last}
      i    == Min(keys)
      node == getNode(g, i)
  IN IF g.err # "none" \/ keys = {} THEN g
     ELSE IF node = undefined THEN Throw(g, "TypeError")
     ELSE IF Len(edgesFromMe(g, node)) # 0
       THEN IF MetaIs(g, node, "isTerminal", "stop")
              THEN StopLoop([g EXCEPT !.nodeObjs[node].meta = Del(@, "isTerminal")], i)
              ELSE StopLoop(g, i)
     ELSE IF ~MetaIs(g, node, "isTerminal", "error")
       THEN StopLoop([g EXCEPT !.nodeObjs[node].meta = Put(@, "isTerminal", "stop")], i)
     ELSE StopLoop(g, i)

\* processStopNodes()
processStopNodes(g) == StopLoop(g, undefined)

\* A caller's addNode calls: node i - 1 with meta data metas[i]
RECURSIVE MakeNodes(_, _)
MakeNodes(metas, n) ==
  IF n = 0 THEN NewGraph
  ELSE addNode(MakeNodes(metas, n - 1), n - 1, <<>>, metas[n])

\* A caller's addEdge calls, in the order of edges
RECURSIVE MakeEdges(_, _, _)
MakeEdges(g, edges, k) ==
  IF k = 0 THEN g
  ELSE addEdge(MakeEdges(g, edges, k - 1),
               edges[k].id, edges[k].from, edges[k].to, edges[k].label)

MakeGraph(metas, edges) == MakeEdges(MakeNodes(metas, Len(metas)), edges, Len(edges))

\* Nodes and edges of the graphs built with meta data
MetaMaxNodes == 3

MetaMaxEdges == 1

\* Edges of the graphs built to hold duplicate edges
DupMaxEdges == 3

\* Meta data of the nodes built
StopMetas ==
  {EmptyObj, [k \in {"isTerminal"} |-> "stop"], [k \in {"isTerminal"} |-> "error"]}

\* The ways to add k edges among n nodes, the ids 0 .. k - 1 given in one of
\* the orders
EdgeCalls(n, k, labels, orders) ==
  {[i \in 1 .. k |-> [id |-> ids[i], from |-> ends[i][1], to |-> ends[i][2],
                      label |-> ends[i][3]]] :
     ids  \in {f \in orders : DOMAIN f = 1 .. k},
     ends \in [1 .. k -> (1 .. n) \X (1 .. n) \X labels]}

\* The ids 0 .. k - 1 in ascending order / in any order
Ascend(max) == {[i \in 1 .. k |-> i - 1] : k \in 0 .. max}

AnyOrder(max) ==
  UNION {{f \in [1 .. k -> 0 .. k - 1] : \A i, j \in 1 .. k : f[i] = f[j] => i = j} :
           k \in 0 .. max}

\* The graph built: up to MetaMaxNodes nodes with meta data and up to
\* MetaMaxEdges edges a, or two nodes and up to DupMaxEdges edges with ids
\* in any order
InitGraph ==
  /\ graph \in
       UNION ({{MakeGraph(metas, edges) :
                  metas \in [1 .. n -> StopMetas],
                  edges \in EdgeCalls(n, k, {<<"a">>}, Ascend(MetaMaxEdges))} :
                 n \in 1 .. MetaMaxNodes, k \in 0 .. MetaMaxEdges}
              \cup
              {{MakeGraph([i \in 1 .. 2 |-> EmptyObj], edges) :
                  edges \in EdgeCalls(2, k, Labels, AnyOrder(DupMaxEdges))} :
                 k \in 2 .. DupMaxEdges})
  /\ calls = 0
  /\ OpsIdle

\* One call on the graph built
Applied(op, ids) ==
  /\ res.op = "none"
  /\ orig' = <<graph>>
  /\ res' = [op |-> op, ids |-> ids]
  /\ UNCHANGED <<calls, heap, uids, args, issued>>

ApplyMergeNodes ==
  \E ids \in {s \in UNION {[1 .. n -> 0 .. MetaMaxNodes - 1] : n \in 2 .. 3} :
                \A i, j \in DOMAIN s : s[i] = s[j] => i = j} :
    /\ \A i \in DOMAIN ids : getNode(graph, ids[i]) # undefined
    /\ graph' = mergeNodes(graph, ids)
    /\ Applied("mergeNodes", ids)

ApplyRemoveDuplicateEdges ==
  /\ graph' = removeDuplicateEdges(graph)
  /\ Applied("removeDuplicateEdges", <<>>)

ApplyProcessStopNodes ==
  /\ graph' = processStopNodes(graph)
  /\ Applied("processStopNodes", <<>>)

ApplyTrim ==
  /\ graph' = trim(graph)
  /\ Applied("trim", <<>>)

NextGraph ==
  \/ ApplyMergeNodes \/ ApplyRemoveDuplicateEdges \/ ApplyProcessStopNodes
  \/ ApplyTrim

SpecGraph == InitGraph /\ [][NextGraph]_vars

\* C16: mergeNodes(ids) on nodes of one graph: ids[0] survives under its own
\* id, every edge that started or ended at another listed node now starts or
\* ends at the survivor, the other listed nodes are removed, and the
\* survivor's meta data is the union of the listed nodes' meta data, the
\* node later in ids winning a key conflict.
C16_MergeNodes ==
  res.op = "mergeNodes" => MergedAs(orig[1], graph, res.ids)

\* Three nodes were merged, the first tagged stop and a later one error, and
\* an edge that ended at a merged node now ends at the survivor.
C16_Witness ==
  /\ res.op = "mergeNodes"
  /\ Len(res.ids) = 3
  /\ MetaIs(orig[1], getNode(orig[1], res.ids[1]), "isTerminal", "stop")
  /\ MetaIs(orig[1], getNode(orig[1], res.ids[3]), "isTerminal", "error")
  /\ MetaIs(graph, getNode(graph, res.ids[1]), "isTerminal", "error")
  /\ \E e \in EdgesOf(graph) :
       /\ EdgeTo(orig[1], e) # EdgeTo(graph, e)
       /\ EdgeTo(graph, e) = getNode(graph, res.ids[1])

\* Edges d and e of g carry the same (from, to, label)
SameTriple(g, d, e) ==
  /\ EdgeFrom(g, d) = EdgeFrom(g, e)
  /\ EdgeTo(g, d) = EdgeTo(g, e)
  /\ g.edgeObjs[d].label = g.edgeObjs[e].label

\* removeDuplicateEdges() took before to after keeping, of the edges with one
\* (from, to, label), the one kept names and leaving it as it was; a second
\* call changes nothing.
Deduplicated(before, after, kept(_, _)) ==
  /\ after.err = "none"
  /\ NodesOf(after) = NodesOf(before)
  /\ EdgesOf(after) =
       {e \in EdgesOf(before) :
          \A d \in EdgesOf(before) : SameTriple(before, d, e) => kept(e, d)}
  /\ \A e \in EdgesOf(after) :
       /\ after.edgeObjs[e] = before.edgeObjs[e]
       /\ EdgeFrom(after, e) = EdgeFrom(before, e)
       /\ EdgeTo(after, e) = EdgeTo(before, e)
  /\ removeDuplicateEdges(after) = after

\* Edge e was added to the graph no later than d (handles count the edges
\* in the order of the addEdge calls)
AddedFirst(e, d) == e <= d

\* Edge e has an id no greater than d's
LowestId(e, d) == orig[1].edgeObjs[e].id <= orig[1].edgeObjs[d].id

\* C17 as stated: after removeDuplicateEdges, of the edges that carried one
\* (from, to, label) exactly one remains, the earliest-inserted one, no other
\* edge is touched, and a second call removes nothing.
C17_EarliestInsertedKept ==
  res.op = "removeDuplicateEdges" => Deduplicated(orig[1], graph, AddedFirst)

\* C17, amended: after removeDuplicateEdges, of the edges that carried one
\* (from, to, label) exactly one remains, the one with the lowest id, no
\* other edge is touched, and a second call removes nothing.
C17_LowestIdKept ==
  res.op = "removeDuplicateEdges" => Deduplicated(orig[1], graph, LowestId)

\* A call removed the earlier-added of two duplicates and left a third edge
C17_Witness ==
  /\ res.op = "removeDuplicateEdges"
  /\ EdgesOf(orig[1]) = {1, 2, 3}
  /\ Cardinality(EdgesOf(graph)) = 2
  /\ \E d \in EdgesOf(orig[1]) \ EdgesOf(graph), e \in EdgesOf(graph) :
       SameTriple(orig[1], d, e) /\ d < e

(***************************************************************************)
(* NodeUid and EdgeUid: the two id counters _NODE_UID and _EDGE_UID.  uids *)
(* holds the counters, res the last call, and issued what the calls        *)
(* returned so far: an id for next, RESET for reset.                       *)
(***************************************************************************)

RESET == undefined

\* Calls on either counter in one run
MaxUidCalls == 4

\* A counter that does not move: next returns the same id again
UidNextStuck(counter) == [value |-> counter, counter |-> counter]

\* static get next(): return _NODE_UID++ (likewise _EDGE_UID++)
UidNext(counter) == [value |-> counter, counter |-> counter + 1]

\* static reset(): _NODE_UID = 0 (likewise _EDGE_UID = 0)
UidReset(counter) == 0

InitUid ==
  /\ uids = [node |-> 0, edge |-> 0]
  /\ issued = [node |-> <<>>, edge |-> <<>>]
  /\ res = [op |-> "none"]
  /\ graph = NewGraph /\ calls = 0 /\ heap = <<>> /\ args = <<>> /\ orig = <<>>

UidCall(c, op) ==
  /\ Len(issued[c]) < MaxUidCalls
  /\ res' = [op |-> op]
  /\ UNCHANGED <<graph, calls, heap, args, orig>>

NodeUidNext ==
  /\ UidCall("node", "NodeUid.next")
  /\ uids' = [uids EXCEPT !.node = UidNext(@).counter]
  /\ issued' = [issued EXCEPT !.node = Append(@, UidNext(uids.node).value)]

NodeUidReset ==
  /\ UidCall("node", "NodeUid.reset")
  /\ uids' = [uids EXCEPT !.node = UidReset(@)]
  /\ issued' = [issued EXCEPT !.node = Append(@, RESET)]

EdgeUidNext ==
  /\ UidCall("edge", "EdgeUid.next")
  /\ uids' = [uids EXCEPT !.edge = UidNext(@).counter]
  /\ issued' = [issued EXCEPT !.edge = Append(@, UidNext(uids.edge).value)]

EdgeUidReset ==
  /\ UidCall("edge", "EdgeUid.reset")
  /\ uids' = [uids EXCEPT !.edge = UidReset(@)]
  /\ issued' = [issued EXCEPT !.edge = Append(@, RESET)]

NextUid == NodeUidNext \/ NodeUidReset \/ EdgeUidNext \/ EdgeUidReset

SpecUid == InitUid /\ [][NextUid]_vars

\* In the calls h of one counter: an id returned is greater than every id
\* returned before it since the last reset, and the first id returned after
\* a reset is 0.
IdsAscend(h) ==
  \A j \in 1 .. Len(h) :
    h[j] # RESET =>
      /\ \A i \in 1 .. j - 1 :
           (\A r \in i .. j : h[r] # RESET) => h[i] < h[j]
      /\ (j > 1 /\ h[j - 1] = RESET) => h[j] = 0

\* C20: between two resets every id NodeUid.next (EdgeUid.next) returns is
\* strictly greater than every id the counter returned since its last reset;
\* reset makes the next id returned 0; and a call on one counter leaves the
\* other counter as it was.
C20_UidsAscend ==
  /\ [](IdsAscend(issued.node) /\ IdsAscend(issued.edge))
  /\ [][/\ issued'.node # issued.node => uids'.edge = uids.edge
        /\ issued'.edge # issued.edge => uids'.node = uids.node]_vars

\* NodeUid returned 0 and 1, was reset and returned 0 again, with an
\* EdgeUid id handed out in between
C20_Witness ==
  /\ issued.node = <<0, 1, RESET, 0>>
  /\ Len(issued.edge) > 0
  /\ uids.edge > 0

\* ---- part II ----
(***************************************************************************)
(* Part II.  src/unnamed/part_000: Graph with flagged edges                *)
(*                                                                         *)
(* In Graph.Operations no node or edge ever changes its id, so a node or   *)
(* edge object is identified by its id within its graph.  An LTS g is a    *)
(* record                                                                  *)
(*   nodeMap : id -> [label, meta]              (this._nodeMap)            *)
(*   edgeMap : id -> [from, to, label, isHidden, isDeadlock]               *)
(*   rootId  : id or undefined                  (this._rootId)             *)
(*   nodeCount, edgeCount                                                  *)
(*   err     : "none", or the exception thrown while working on g          *)
(* where from and to are the ids of edge._from and edge._to.  The sets     *)
(* node._edgesFromMe and node._edgesToMe are the edges of edgeMap that     *)
(* start / end at the node.  Meta data is a record with one field per key  *)
(* the library uses; "none" / FALSE stands for an absent key.              *)
(***************************************************************************)

\* DELTA of part_000, the label that stands for a deadlock edge
LtsDELTA == "delta"

\* {} as the meta data of a node
NoMeta == [isTerminal |-> "none", startNode |-> FALSE, parallel |-> FALSE]

NewLts ==
  [nodeMap |-> EmptyObj, edgeMap |-> EmptyObj, rootId |-> undefined,
   nodeCount |-> 0, edgeCount |-> 0, err |-> "none"]

\* var v = ...; the statements F that follow
With(v, F(_)) == F(v)

\* The elements of a set of integers in ascending order (for-in order)
RECURSIVE Ascending(_)
Ascending(S) ==
  IF S = {} THEN <<>> ELSE <<Min(S)>> \o Ascending(S \ {Min(S)})

\* _.contains(array, x)
Contains(s, x) == \E i \in 1 .. Len(s) : s[i] = x

\* get root(): the node under _rootId, a node being known by its id
LtsRoot(g) == IF g.rootId \in DOMAIN g.nodeMap THEN g.rootId ELSE undefined

\* set root(node)
LtsSetRoot(g, node) ==
  IF node = LtsRoot(g) THEN g
  ELSE [g EXCEPT !.rootId = node]

\* The nodes by ascending id, the root in its place
LtsNodesAscending(g) == Ascending(DOMAIN g.nodeMap)

\* get nodes(): the root first, then the others by ascending id
LtsNodes(g) ==
  <<LtsRoot(g)>> \o Ascending((DOMAIN g.nodeMap) \ {g.rootId})

\* get edges(), as edge ids
LtsEdges(g) == Ascending(DOMAIN g.edgeMap)

LtsAddNode(g, uid, label, metaData) ==
  IF g.err # "none" THEN g
  ELSE IF uid \in DOMAIN g.nodeMap THEN Throw(g, "Graph.Exception")
  ELSE LET g1 == [g EXCEPT !.nodeMap = Put(@, uid, [label |-> label, meta |-> metaData]),
                           !.nodeCount = @ + 1]
       IN IF LtsRoot(g1) = undefined THEN LtsSetRoot(g1, uid) ELSE g1

\* from and to are nodes of g (ids), or undefined
LtsAddEdge(g, uid, from, to, label, hid, dead) ==
  IF g.err # "none" THEN g
  ELSE IF uid \in DOMAIN g.edgeMap THEN Throw(g, "Graph.Exception")
  ELSE LET g1 == [g EXCEPT !.edgeMap = Put(@, uid, [from |-> from, to |-> to, label |-> label,
                                                    isHidden |-> hid, isDeadlock |-> dead]),
                           !.edgeCount = @ + 1]
       IN IF from = undefined \/ to = undefined THEN Throw(g1, "TypeError") ELSE g1

\* Edge.from / Edge.to: looked up in _nodeMap by the id of the end
LtsEdgeFrom(g, e) == IF g.edgeMap[e].from \in DOMAIN g.nodeMap THEN g.edgeMap[e].from ELSE undefined

LtsEdgeTo(g, e) == IF g.edgeMap[e].to \in DOMAIN g.nodeMap THEN g.edgeMap[e].to ELSE undefined

\* Node.edgesFromMe / Node.edgesToMe, as edge ids in for-in order
LtsEdgesFromMe(g, n) == Ascending({e \in DOMAIN g.edgeMap : g.edgeMap[e].from = n})

LtsEdgesToMe(g, n) == Ascending({e \in DOMAIN g.edgeMap : g.edgeMap[e].to = n})

\* Node.neighbors, one entry per edge from the node
LtsNeighbors(g, n) ==
  LET es == LtsEdgesFromMe(g, n) IN [i \in 1 .. Len(es) |-> LtsEdgeTo(g, es[i])]

LtsAddMetaData(g, n, key, value) ==
  IF g.err # "none" THEN g
  ELSE IF n \notin DOMAIN g.nodeMap THEN Throw(g, "TypeError")
  ELSE [g EXCEPT !.nodeMap[n].meta = [@ EXCEPT ![key] = value]]

LtsRemoveEdge(g, e) ==
  IF g.err # "none" \/ e \notin DOMAIN g.edgeMap THEN g
  ELSE IF LtsEdgeTo(g, e) = undefined \/ LtsEdgeFrom(g, e) = undefined THEN Throw(g, "TypeError")
  ELSE [g EXCEPT !.edgeMap = Del(@, e), !.edgeCount = @ - 1]

RECURSIVE LtsRemoveEdges(_, _)
LtsRemoveEdges(g, es) ==
  IF es = <<>> THEN g ELSE LtsRemoveEdges(LtsRemoveEdge(g, Head(es)), Tail(es))

\* The end of removeNode: the node leaves _nodeMap; this.root = undefined
\* is then swallowed by the setter's dirty check, because the root getter
\* already yields undefined
LtsDropNode(g, n) ==
  IF g.err # "none" THEN g
  ELSE LET g1 == [g EXCEPT !.nodeMap = Del(@, n), !.nodeCount = @ - 1]
       IN IF g1.rootId = n THEN LtsSetRoot(g1, undefined) ELSE g1

\* removeNode: the edges to the node go, then the edges from it, then the node
LtsRemoveNode(g, n) ==
  IF g.err # "none" \/ n \notin DOMAIN g.nodeMap THEN g
  ELSE With(LtsRemoveEdges(g, LtsEdgesToMe(g, n)), LAMBDA g1 :
         LtsDropNode(LtsRemoveEdges(g1, LtsEdgesFromMe(g1, n)), n))

containsEdge(g, from, to, label) ==
  \E e \in DOMAIN g.edgeMap :
    LtsEdgeFrom(g, e) = from /\ LtsEdgeTo(g, e) = to /\ g.edgeMap[e].label = label

\* The keys of constructAlphabet()
constructAlphabet(g) ==
  {IF g.edgeMap[e].isDeadlock THEN LtsDELTA ELSE g.edgeMap[e].label : e \in DOMAIN g.edgeMap}

containsEdgeInAlphabet(g, edge) == edge \in constructAlphabet(g)

isHiddenEdge(g, edge) ==
  \E e \in DOMAIN g.edgeMap : g.edgeMap[e].label = edge /\ g.edgeMap[e].isHidden

\* get hiddenEdges(), as edge ids
hiddenEdges(g) == Ascending({e \in DOMAIN g.edgeMap : g.edgeMap[e].isHidden})

\* removeDuplicateEdges: among the edges from one node, the first (lowest
\* id) with a given target and label removes every other one, whatever the
\* flags of the two edges.
LtsRemoveDuplicateEdges(g) ==
  LET dup == {e \in DOMAIN g.edgeMap :
                \E f \in DOMAIN g.edgeMap :
                  /\ f < e
                  /\ g.edgeMap[f].from = g.edgeMap[e].from
                  /\ g.edgeMap[f].to = g.edgeMap[e].to
                  /\ g.edgeMap[f].label = g.edgeMap[e].label}
  IN LtsRemoveEdges(g, Ascending(dup))

\* A removal of hidden edges that spares the hidden loops
removeHiddenEdgesNotLoops(g) ==
  LtsRemoveEdges(g, SelectSeq(hiddenEdges(g), LAMBDA e : g.edgeMap[e].from # g.edgeMap[e].to))

\* removeHiddenEdges: every hidden edge goes; then every node without an
\* incoming edge is tagged startNode
removeHiddenEdges(g) ==
  With(LtsRemoveEdges(g, hiddenEdges(g)), LAMBDA g1 :
    IF g1.err # "none" THEN g1
    ELSE [g1 EXCEPT !.nodeMap = [n \in DOMAIN @ |->
            IF LtsEdgesToMe(g1, n) = <<>> THEN [@[n] EXCEPT !.meta.startNode = TRUE]
            ELSE @[n]]])

\* The depth-first search of get reachableNodes(): the set of ids visited,
\* or undefined when the search meets an id that is not in _nodeMap
\* (getNode returns undefined and .neighbors throws)
RECURSIVE LtsReach(_, _, _)
LtsReach(g, stack, visited) ==
  IF stack = <<>> THEN visited
  ELSE LET id == stack[Len(stack)]
           rest == SubSeq(stack, 1, Len(stack) - 1)
       IN IF id \in visited THEN LtsReach(g, rest, visited)
          ELSE IF id \notin DOMAIN g.nodeMap THEN {undefined}
          ELSE LtsReach(g, rest \o LtsNeighbors(g, id), visited \cup {id})

LtsReachableNodes(g) == LtsReach(g, <<g.rootId>>, {})

RECURSIVE LtsRemoveNodes(_, _)
LtsRemoveNodes(g, ns) ==
  IF ns = <<>> THEN g ELSE LtsRemoveNodes(LtsRemoveNode(g, Head(ns)), Tail(ns))

LtsTrim(g) ==
  IF g.err # "none" THEN g
  ELSE With(LtsReachableNodes(g), LAMBDA reachable :
         IF undefined \in reachable THEN Throw(g, "TypeError")
         ELSE LtsRemoveNodes(g, Ascending((DOMAIN g.nodeMap) \ reachable)))

\* for (key in meta) mergedMetaData[key] = meta[key]
MergeMeta(merged, meta) ==
  [isTerminal |-> IF meta.isTerminal # "none" THEN meta.isTerminal ELSE merged.isTerminal,
   startNode |-> meta.startNode \/ merged.startNode,
   parallel |-> meta.parallel \/ merged.parallel]

\* One node of mergeNodes after the first: its edges are moved to
\* mergedNode, its own edge sets are emptied, and removeNode then only
\* takes the node out of _nodeMap
LtsMergeInto(g, mergedNode, node) ==
  LET moved == [g EXCEPT !.edgeMap = [e \in DOMAIN @ |->
                  [@[e] EXCEPT !.from = IF @ = node THEN mergedNode ELSE @,
                               !.to = IF @ = node THEN mergedNode ELSE @]]]
  IN LtsDropNode(moved, node)

\* The loop of mergeNodes from position i on
RECURSIVE LtsMergeLoop(_, _, _, _, _, _)
LtsMergeLoop(g, nodeIds, i, mergedNode, mergedMetaData, isRoot) ==
  IF g.err # "none" THEN g
  ELSE IF i > Len(nodeIds)
  THEN IF mergedNode = undefined THEN Throw(g, "TypeError")
       ELSE LET g1 == IF mergedNode \in DOMAIN g.nodeMap
                      THEN [g EXCEPT !.nodeMap[mergedNode].meta = mergedMetaData]
                      ELSE g
            IN IF isRoot THEN LtsSetRoot(g1, mergedNode) ELSE g1
  ELSE LET node == nodeIds[i]
       IN IF node \notin DOMAIN g.nodeMap THEN Throw(g, "TypeError")
          ELSE LET meta == MergeMeta(mergedMetaData, g.nodeMap[node].meta)
                   r == isRoot \/ node = g.rootId
               IN IF mergedNode = undefined
                  THEN LtsMergeLoop(g, nodeIds, i + 1, node, meta, r)
                  ELSE LtsMergeLoop(LtsMergeInto(g, mergedNode, node), nodeIds, i + 1,
                                    mergedNode, meta, r)

\* A mergeNodes that merges only the first two of the nodes listed
LtsMergeFirstTwo(g, nodeIds) ==
  LtsMergeLoop(g, SubSeq(nodeIds, 1, 2), 1, undefined, NoMeta, FALSE)

LtsMergeNodes(g, nodeIds) == LtsMergeLoop(g, nodeIds, 1, undefined, NoMeta, FALSE)

\* The graph deepClone() builds from g: every node re-added under its id,
\* every edge re-added between the copied nodes, then the root id copied
RECURSIVE CloneNodes(_, _, _)
CloneNodes(clone, g, keys) ==
  IF keys = <<>> THEN clone
  ELSE CloneNodes(LtsAddNode(clone, Head(keys), g.nodeMap[Head(keys)].label,
                             g.nodeMap[Head(keys)].meta), g, Tail(keys))

RECURSIVE CloneEdges(_, _, _)
CloneEdges(clone, g, keys) ==
  IF keys = <<>> THEN clone
  ELSE LET e == g.edgeMap[Head(keys)]
       IN CloneEdges(LtsAddEdge(clone, Head(keys),
                                IF LtsEdgeFrom(g, Head(keys)) \in DOMAIN clone.nodeMap
                                  THEN LtsEdgeFrom(g, Head(keys)) ELSE undefined,
                                IF LtsEdgeTo(g, Head(keys)) \in DOMAIN clone.nodeMap
                                  THEN LtsEdgeTo(g, Head(keys)) ELSE undefined,
                                e.label, e.isHidden, e.isDeadlock), g, Tail(keys))

CloneOf(g) ==
  With(CloneEdges(CloneNodes(NewLts, g, Ascending(DOMAIN g.nodeMap)), g,
                  Ascending(DOMAIN g.edgeMap)),
       LAMBDA clone : IF clone.err # "none" THEN clone ELSE [clone EXCEPT !.rootId = g.rootId])

\* A clone that is the graph itself
shallowClone(H, ref) == [heap |-> H, ref |-> ref]

\* Graphs are objects: heap is the sequence of Graph objects allocated so
\* far and a reference is an index into it.  deepClone allocates a new
\* object and returns the heap and the reference to the clone.
deepClone(H, ref) == [heap |-> Append(H, CloneOf(H[ref])), ref |-> Len(H) + 1]

\* A method call that changes the Graph object under ref in place
Store(H, ref, g) == [H EXCEPT ![ref] = g]

(***************************************************************************)
(* Graph.Operations.abstraction                                            *)
(***************************************************************************)

\* _getTransitions(edges, isFrom): the edges that are not hidden, each with
\* the node at its far end
getTransitions(g, edges, isFrom) ==
  With(SelectSeq(edges, LAMBDA e : ~g.edgeMap[e].isHidden), LAMBDA shown :
    [i \in 1 .. Len(shown) |->
       [node |-> IF isFrom THEN LtsEdgeTo(g, shown[i]) ELSE LtsEdgeFrom(g, shown[i]),
        label |-> g.edgeMap[shown[i]].label,
        isDeadlock |-> g.edgeMap[shown[i]].isDeadlock]])

\* _constructEdge, the uid left to the position in the list of edges to add
constructEdge(from, to, label, hid, dead) ==
  [from |-> from, to |-> to, label |-> label, isHidden |-> hid, isDeadlock |-> dead]

\* The edges the body of the while loop of _addObservableEdges pushes for
\* the transitions at the node current
ObservableAt(current, transitions, isFrom) ==
  [i \in 1 .. Len(transitions) |->
     IF isFrom
     THEN constructEdge(transitions[i].node, current, transitions[i].label, FALSE,
                        transitions[i].isDeadlock)
     ELSE constructEdge(current, transitions[i].node, transitions[i].label, FALSE,
                        transitions[i].isDeadlock)]

\* The second for loop of the while body: hidden edges at current lead to
\* nodes that are pushed (push = TRUE) when not yet visited, and otherwise
\* give a tau loop on the visited node (push = FALSE)
RECURSIVE HiddenAt(_, _, _, _, _)
HiddenAt(g, edges, visited, isFrom, push) ==
  IF edges = <<>> THEN <<>>
  ELSE LET edge == g.edgeMap[Head(edges)]
           node == IF isFrom THEN LtsEdgeTo(g, Head(edges)) ELSE LtsEdgeFrom(g, Head(edges))
           rest == HiddenAt(g, Tail(edges), visited, isFrom, push)
       IN IF edge.isHidden /\ push /\ node \notin visited THEN <<node>> \o rest
          ELSE IF edge.isHidden /\ ~push /\ node \in visited
               THEN <<constructEdge(node, node, "", TRUE, FALSE)>> \o rest
          ELSE rest

\* The while loop of _addObservableEdges
RECURSIVE ObservableLoop(_, _, _, _, _, _)
ObservableLoop(g, stack, visited, transitions, isFrom, edgesToAdd) ==
  IF stack = <<>> THEN edgesToAdd
  ELSE LET current == stack[Len(stack)]
           seen == visited \cup {current}
       IN With(IF isFrom THEN LtsEdgesFromMe(g, current) ELSE LtsEdgesToMe(g, current),
               LAMBDA edges :
                 ObservableLoop(g,
                   SubSeq(stack, 1, Len(stack) - 1) \o HiddenAt(g, edges, seen, isFrom, TRUE),
                   seen, transitions, isFrom,
                   edgesToAdd \o ObservableAt(current, transitions, isFrom)
                              \o HiddenAt(g, edges, seen, isFrom, FALSE)))

addObservableEdges(g, start, first, transitions, isFrom) ==
  ObservableLoop(g, <<first>>, {start}, transitions, isFrom, <<>>)

\* The first loop of abstraction: the edges to add, hidden edge by hidden edge
RECURSIVE EdgesToAdd(_, _)
EdgesToAdd(g, hidden) ==
  IF hidden = <<>> THEN <<>>
  ELSE LET from == LtsEdgeFrom(g, Head(hidden))
           to == LtsEdgeTo(g, Head(hidden))
       IN addObservableEdges(g, from, to, getTransitions(g, LtsEdgesToMe(g, from), FALSE), TRUE)
          \o addObservableEdges(g, to, from, getTransitions(g, LtsEdgesFromMe(g, to), TRUE), FALSE)
          \o EdgesToAdd(g, Tail(hidden))

\* The second loop of abstraction: an edge is added unless the clone holds
\* an edge with the same ends and label.  The i-th constructed edge took
\* the i-th value of EdgeUid.next.
RECURSIVE AddNewEdges(_, _, _, _)
AddNewEdges(g, edgesToAdd, i, uid) ==
  IF i > Len(edgesToAdd) THEN g
  ELSE LET edge == edgesToAdd[i]
       IN AddNewEdges(IF containsEdge(g, edge.from, edge.to, edge.label) THEN g
                      ELSE LtsAddEdge(g, uid + i - 1, edge.from, edge.to, edge.label,
                                      edge.isHidden, edge.isDeadlock),
                      edgesToAdd, i + 1, uid)

\* The loop of _constructDeadlocks over the edges the clone had on entry;
\* yields the graph and the uid counters
RECURSIVE DeadlockLoop(_, _, _)
DeadlockLoop(g, edges, u) ==
  IF edges = <<>> THEN [graph |-> g, uids |-> u]
  ELSE LET e == Head(edges)
       IN IF g.err = "none" /\ e \in DOMAIN g.edgeMap /\ g.edgeMap[e].isHidden
             /\ LtsEdgeFrom(g, e) = LtsEdgeTo(g, e)
          THEN LET g1 == LtsAddNode(g, u.node, "", NoMeta)
                   g2 == LtsAddEdge(g1, u.edge, LtsEdgeFrom(g1, e), u.node, "", FALSE, TRUE)
                   g3 == LtsRemoveEdge(g2, e)
               IN DeadlockLoop(LtsAddMetaData(g3, u.node, "isTerminal", "error"), Tail(edges),
                               [node |-> u.node + 1, edge |-> u.edge + 1])
          ELSE DeadlockLoop(g, Tail(edges), u)

constructDeadlocks(H, ref, u) ==
  With(deepClone(H, ref), LAMBDA c :
    With(DeadlockLoop(c.heap[c.ref], LtsEdges(c.heap[c.ref]), u), LAMBDA d :
      [heap |-> Store(c.heap, c.ref, d.graph), ref |-> c.ref, uids |-> d.uids]))

\* _constructStopNodes: every node the search from the root visits that has
\* no edge from it and no isTerminal tag is tagged "stop"
StopNodes(g) ==
  IF g.err # "none" THEN g
  ELSE With(LtsReachableNodes(g), LAMBDA visited :
         IF undefined \in visited THEN Throw(g, "TypeError")
         ELSE [g EXCEPT !.nodeMap = [n \in DOMAIN @ |->
                 IF n \in visited /\ LtsNeighbors(g, n) = <<>> /\ @[n].meta.isTerminal = "none"
                 THEN [@[n] EXCEPT !.meta.isTerminal = "stop"] ELSE @[n]]])

constructStopNodes(H, ref) ==
  With(deepClone(H, ref), LAMBDA c :
    [heap |-> Store(c.heap, c.ref, StopNodes(c.heap[c.ref])), ref |-> c.ref])

\* The clone of abstraction once the edges to add are known: they are
\* added, then the hidden edges are removed, all of them when the
\* abstraction is fair and those found on entry otherwise
AbstractClone(g, edgesToAdd, isFair, uid) ==
  With(AddNewEdges(g, edgesToAdd, 1, uid), LAMBDA added :
    IF isFair THEN removeHiddenEdges(added) ELSE LtsRemoveEdges(added, hiddenEdges(g)))

\* The end of abstraction: the stop nodes are constructed and the graph
\* that comes back is trimmed
AbstractionEnd(d) ==
  With(constructStopNodes(d.heap, d.ref), LAMBDA s :
    [heap |-> Store(s.heap, s.ref, LtsTrim(s.heap[s.ref])), ref |-> s.ref, uids |-> d.uids])

\* abstraction(graph, isFair): yields the heap, the reference to the
\* result and the uid counters
abstraction(H, lts, isFair, u) ==
  With(deepClone(H, lts), LAMBDA c :
    With(EdgesToAdd(c.heap[c.ref], hiddenEdges(c.heap[c.ref])), LAMBDA edgesToAdd :
      With([heap |-> Store(c.heap, c.ref, AbstractClone(c.heap[c.ref], edgesToAdd, isFair, u.edge)),
            ref |-> c.ref,
            uids |-> [u EXCEPT !.edge = @ + Len(edgesToAdd)]],
           LAMBDA d :
             AbstractionEnd(IF isFair THEN d ELSE constructDeadlocks(d.heap, d.ref, d.uids)))))

(***************************************************************************)
(* Graph.ColoredNode, Graph.NodeColoring and the bisimulation colouring    *)
(*                                                                         *)
(* coloredNodes maps a node id to [graph, color]: graph is the position of *)
(* the clone the node object belongs to, color a string.  A colour         *)
(* {from, to, label} is the tuple <<from, to, label>>, and <<from>> when   *)
(* to and label are undefined.  A colouring holds no colour twice and      *)
(* equals() compares two colourings as sets, so a colouring is a set.      *)
(***************************************************************************)

\* new Graph.ColoredNode(node) for the node n of the clone at position k
ColoredNode(cs, k, n) ==
  [graph |-> k,
   color |-> IF \E e \in DOMAIN cs[k].edgeMap :
                  cs[k].edgeMap[e].to = n /\ cs[k].edgeMap[e].isDeadlock
             THEN "-1" ELSE "0"]

\* The first loop of _bisimulation: a later clone overwrites the entry of
\* an earlier one under the same id
InitialColoredNodes(cs) ==
  [n \in UNION {DOMAIN cs[k].nodeMap : k \in 1 .. Len(cs)} |->
     ColoredNode(cs, Max({k \in 1 .. Len(cs) : n \in DOMAIN cs[k].nodeMap}), n)]

\* A colouring by the labels of the edges that leave a node alone
LabelColoring(cs, coloredNodes, n) ==
  With({<<cs[coloredNodes[n].graph].edgeMap[e].label>> :
          e \in {x \in DOMAIN cs[coloredNodes[n].graph].edgeMap :
                   cs[coloredNodes[n].graph].edgeMap[x].from = n}},
       LAMBDA colors : IF colors = {} THEN {<<"0">>} ELSE colors)

constructNodeColoring(cs, coloredNodes, n) ==
  LET g == cs[coloredNodes[n].graph]
      from == coloredNodes[n].color
      out == {<<from,
                IF g.edgeMap[e].isDeadlock THEN "-1" ELSE coloredNodes[g.edgeMap[e].to].color,
                IF g.edgeMap[e].isDeadlock THEN LtsDELTA ELSE g.edgeMap[e].label>> :
                e \in {x \in DOMAIN g.edgeMap : g.edgeMap[x].from = n}}
      in == IF \E e \in DOMAIN g.edgeMap : g.edgeMap[e].to = n /\ g.edgeMap[e].isDeadlock
            THEN {<<"-1">>} ELSE {}
  IN With(out \cup in, LAMBDA colors : IF colors = {} THEN {<<"0">>} ELSE colors)

\* The position of the first colouring of colorMap that equals coloring, 0 when none does
FirstMatch(colorMap, coloring) ==
  IF \E c \in 1 .. Len(colorMap) : colorMap[c] = coloring
  THEN Min({c \in 1 .. Len(colorMap) : colorMap[c] = coloring})
  ELSE 0

RECURSIVE ColoringLoop(_, _, _, _)
ColoringLoop(cs, coloredNodes, ids, colorMap) ==
  IF ids = <<>> THEN colorMap
  ELSE With(constructNodeColoring(cs, coloredNodes, Head(ids)), LAMBDA coloring :
         ColoringLoop(cs, coloredNodes, Tail(ids),
                      IF FirstMatch(colorMap, coloring) # 0 THEN colorMap
                      ELSE Append(colorMap, coloring)))

constructColoring(cs, coloredNodes) ==
  ColoringLoop(cs, coloredNodes, Ascending(DOMAIN coloredNodes), <<>>)

\* The new colour of a node is the index, as for-in yields it, of the
\* first colouring of the map equal to its own
applyColoring(cs, coloredNodes, colorMap) ==
  [n \in DOMAIN coloredNodes |->
     With(FirstMatch(colorMap, constructNodeColoring(cs, coloredNodes, n)), LAMBDA c :
       IF c = 0 THEN coloredNodes[n]
       ELSE [coloredNodes[n] EXCEPT !.color = ToString(c - 1)])]

\* The while loop of _bisimulation
RECURSIVE RefineLoop(_, _, _, _)
RefineLoop(cs, coloredNodes, previousLength, colorMap) ==
  IF previousLength < Len(colorMap)
  THEN With(constructColoring(cs, coloredNodes), LAMBDA next :
         RefineLoop(cs, applyColoring(cs, coloredNodes, next), Len(colorMap), next))
  ELSE [coloredNodes |-> coloredNodes, colorMap |-> colorMap]

\* The merging of one clone: colour by colour, the nodes of that colour,
\* in the order of the clone's node list on entry, are merged
RECURSIVE MergeColors(_, _, _, _, _)
MergeColors(g, nodes, coloredNodes, i, n) ==
  IF i >= n THEN g
  ELSE With(SelectSeq(nodes, LAMBDA k : coloredNodes[k].color = ToString(i)), LAMBDA nodeIds :
         MergeColors(IF Len(nodeIds) > 1 THEN LtsMergeNodes(g, nodeIds) ELSE g,
                     nodes, coloredNodes, i + 1, n))

MergeClone(g, coloredNodes, colorMap) ==
  IF undefined \in Range(LtsNodes(g)) THEN Throw(g, "TypeError")
  ELSE LtsRemoveDuplicateEdges(MergeColors(g, LtsNodes(g), coloredNodes, 0, Len(colorMap)))

\* The clones _bisimulation makes, one deepClone per graph
RECURSIVE CloneAll(_, _)
CloneAll(H, graphs) ==
  IF graphs = <<>> THEN [heap |-> H, refs |-> <<>>]
  ELSE With(deepClone(H, Head(graphs)), LAMBDA c :
         With(CloneAll(c.heap, Tail(graphs)), LAMBDA rest :
           [heap |-> rest.heap, refs |-> <<c.ref>> \o rest.refs]))

\* The end of _bisimulation: the clones c, coloured as r says, are merged
MergeAll(c, r) ==
  [heap |-> [h \in 1 .. Len(c.heap) |->
               IF \E k \in 1 .. Len(c.refs) : c.refs[k] = h
               THEN MergeClone(c.heap[h], r.coloredNodes, r.colorMap)
               ELSE c.heap[h]],
   coloredNodes |-> r.coloredNodes,
   graphs |-> c.refs]

\* The colouring of the clones cs
Coloring(cs) == RefineLoop(cs, InitialColoredNodes(cs), -1, <<>>)

\* _bisimulation(graphs): yields the heap, the coloured nodes and the
\* references to the merged clones
bisimulation(H, graphs) ==
  With(CloneAll(H, graphs), LAMBDA c :
    MergeAll(c, Coloring([k \in 1 .. Len(c.refs) |-> c.heap[c.refs[k]]])))

simplification(H, lts) ==
  With(bisimulation(H, <<lts>>), LAMBDA result :
    [heap |-> result.heap, ref |-> result.graphs[1]])

\* isEquivalent(...graphs): yields the heap and the boolean returned
isEquivalent(H, graphs) ==
  With(bisimulation(H, graphs), LAMBDA result :
    [heap |-> result.heap,
     value |-> \A i \in 1 .. Len(graphs) - 1 :
                 result.coloredNodes[H[graphs[i]].rootId].color
                   = result.coloredNodes[H[graphs[i + 1]].rootId].color])

(***************************************************************************)
(* Graph.Operations.parallelComposition                                    *)
(***************************************************************************)

RECURSIVE Flatten(_)
Flatten(ss) == IF ss = <<>> THEN <<>> ELSE Head(ss) \o Flatten(Tail(ss))

\* The keys of the object constructAlphabet() builds, in the order they
\* were first set
RECURSIVE AlphabetKeys(_, _, _)
AlphabetKeys(g, edges, keys) ==
  IF edges = <<>> THEN keys
  ELSE LET label == IF g.edgeMap[Head(edges)].isDeadlock THEN LtsDELTA
                    ELSE g.edgeMap[Head(edges)].label
       IN AlphabetKeys(g, Tail(edges), IF Contains(keys, label) THEN keys ELSE Append(keys, label))

\* this.alphabetUnion(otherGraph), as the sequence of its keys
alphabetUnion(g, otherGraph) ==
  AlphabetKeys(otherGraph, LtsEdges(otherGraph), AlphabetKeys(g, LtsEdges(g), <<>>))

\* Node.coaccessible(edge): the targets of the edges from n labelled edge,
\* or one undefined
coaccessible(g, n, edge) ==
  With(SelectSeq(LtsEdgesFromMe(g, n), LAMBDA e : g.edgeMap[e].label = edge), LAMBDA es :
    IF es = <<>> THEN <<undefined>> ELSE [i \in 1 .. Len(es) |-> LtsEdgeTo(g, es[i])])

\* (node.label !== '') ? node.label : node.id, as it enters a string
LabelOrId(g, n) == IF g.nodeMap[n].label # "" THEN g.nodeMap[n].label ELSE ToString(n)

\* The two loops of _combineStates from the pair (i, j) on; the node made
\* for the p-th pair takes the p-th value of NodeUid.next
RECURSIVE CombineLoop(_, _, _, _, _, _, _, _)
CombineLoop(lts, g1, nodes1, g2, nodes2, i, j, uid) ==
  IF i > Len(nodes1) THEN lts
  ELSE IF j > Len(nodes2) THEN CombineLoop(lts, g1, nodes1, g2, nodes2, i + 1, 1, uid)
  ELSE LET m1 == g1.nodeMap[nodes1[i]].meta
           m2 == g2.nodeMap[nodes2[j]].meta
           meta == [NoMeta EXCEPT
                      !.startNode = m1.startNode /\ m2.startNode,
                      !.isTerminal = IF m1.isTerminal = "stop" /\ m2.isTerminal = "stop"
                                     THEN "stop" ELSE "none"]
       IN CombineLoop(LtsAddNode(lts, uid, LabelOrId(g1, nodes1[i]) \o "." \o LabelOrId(g2, nodes2[j]),
                                 meta),
                      g1, nodes1, g2, nodes2, i, j + 1, uid + 1)

combineStates(g1, nodes1, g2, nodes2, uid) ==
  With(CombineLoop(NewLts, g1, nodes1, g2, nodes2, 1, 1, uid), LAMBDA product :
    LtsAddMetaData(product, LtsRoot(product), "parallel", TRUE))

\* _getId: the id of the first node of the product whose label is the
\* label made of the two nodes
getId(product, g1, node1, g2, node2) ==
  With(SelectSeq(LtsNodes(product), LAMBDA n :
         product.nodeMap[n].label = LabelOrId(g1, node1) \o "." \o LabelOrId(g2, node2)),
       LAMBDA found : IF found = <<>> THEN undefined ELSE found[1])

\* The edge, if any, the innermost loop body adds from the product node
\* fromId for the nodes node1 and node2, the action and the targets
\* coaccessible1 and coaccessible2
ProductEdge(product, fromId, g1, node1, g2, node2, action, coaccessible1, coaccessible2) ==
  IF coaccessible1 # undefined /\ coaccessible2 # undefined
  THEN <<constructEdge(fromId, getId(product, g1, coaccessible1, g2, coaccessible2), action,
                       isHiddenEdge(g1, action), FALSE)>>
  ELSE IF coaccessible1 # undefined /\ ~containsEdgeInAlphabet(g2, action)
  THEN <<constructEdge(fromId, getId(product, g1, coaccessible1, g2, node2), action,
                       isHiddenEdge(g1, action), FALSE)>>
  ELSE IF coaccessible2 # undefined /\ ~containsEdgeInAlphabet(g1, action)
  THEN <<constructEdge(fromId, getId(product, g1, node1, g2, coaccessible2), action,
                       isHiddenEdge(g2, action), FALSE)>>
  ELSE <<>>

\* The edges the two innermost loops add for one pair of nodes and one action
ActionEdges(product, fromId, g1, node1, g2, node2, action, c1, c2) ==
  Flatten([x \in 1 .. Len(c1) |->
    Flatten([y \in 1 .. Len(c2) |->
      ProductEdge(product, fromId, g1, node1, g2, node2, action, c1[x], c2[y])])])

\* The edges the loop over the alphabet adds for one pair of nodes
PairEdges(product, fromId, g1, node1, g2, node2, alphabet) ==
  Flatten([a \in 1 .. Len(alphabet) |->
    ActionEdges(product, fromId, g1, node1, g2, node2, alphabet[a],
                coaccessible(g1, node1, alphabet[a]), coaccessible(g2, node2, alphabet[a]))])

\* The edges the nested loops add, in the order they add them
ProductEdges(product, g1, nodes1, g2, nodes2, alphabet) ==
  Flatten([i \in 1 .. Len(nodes1) |->
    Flatten([j \in 1 .. Len(nodes2) |->
      PairEdges(product, getId(product, g1, nodes1[i], g2, nodes2[j]),
                g1, nodes1[i], g2, nodes2[j], alphabet)])])

\* graph.addEdge(EdgeUid.next, graph.getNode(fromId), graph.getNode(toId), action, isHidden)
RECURSIVE AddProductEdges(_, _, _, _)
AddProductEdges(product, edges, i, uid) ==
  IF i > Len(edges) THEN product
  ELSE AddProductEdges(LtsAddEdge(product, uid + i - 1, edges[i].from, edges[i].to,
                                  edges[i].label, edges[i].isHidden, edges[i].isDeadlock),
                       edges, i + 1, uid)

\* The product as it stands when the loops are over, before graph.trim()
Product(g1, g2, u) ==
  With(combineStates(g1, LtsNodes(g1), g2, LtsNodes(g2), u.node), LAMBDA product :
    AddProductEdges(product,
                    ProductEdges(product, g1, LtsNodes(g1), g2, LtsNodes(g2), alphabetUnion(g1, g2)),
                    1, u.edge))

\* parallelComposition(graph1, graph2): yields the heap, the reference to
\* the new graph, the uid counters, and the product as it stood before trim
parallelComposition(H, graph1, graph2, u) ==
  With(Product(H[graph1], H[graph2], u), LAMBDA product :
    [heap |-> Append(H, LtsTrim(product)), ref |-> Len(H) + 1,
     uids |-> [node |-> u.node + Len(LtsNodes(H[graph1])) * Len(LtsNodes(H[graph2])),
               edge |-> u.edge + product.edgeCount],
     product |-> product])

(***************************************************************************)
(* The callers of Graph.Operations                                         *)
(*                                                                         *)
(* heap  : the Graph objects allocated so far, a reference is an index     *)
(* uids  : the counters _NODE_UID and _EDGE_UID                            *)
(* args  : the references to the graphs the caller passes to an operation  *)
(* orig  : the value each of those graphs had when the caller built it     *)
(* res   : the operation called, the reference it returned (ref), the      *)
(*         boolean it returned (value), the product parallelComposition    *)
(*         had built when it called trim (product), and the number of      *)
(*         changes the caller has made to the returned graph since         *)
(*                                                                         *)
(* A caller builds its graphs with addNode and addEdge, taking the ids     *)
(* from NodeUid.next and EdgeUid.next, so the counters are above every id  *)
(* in use; every node is reachable from the root.                          *)
(***************************************************************************)

\* The kinds of edge a caller adds: an action, a hidden action, a tau, a deadlock
Visible(label) == [label |-> label, isHidden |-> FALSE, isDeadlock |-> FALSE]

Hidden(label) == [label |-> label, isHidden |-> TRUE, isDeadlock |-> FALSE]

Deadlock == [label |-> "", isHidden |-> FALSE, isDeadlock |-> TRUE]

\* graph.addNode(NodeUid.next, label) for each label in turn
RECURSIVE BuildNodes(_, _, _)
BuildNodes(g, uid, labels) ==
  IF labels = <<>> THEN g
  ELSE BuildNodes(LtsAddNode(g, uid, Head(labels), NoMeta), uid + 1, Tail(labels))

\* graph.addEdge(EdgeUid.next, from, to, label, isHidden, isDeadlock) for
\* each edge in turn; from and to count from the first node of the graph
RECURSIVE BuildEdges(_, _, _, _)
BuildEdges(g, node0, uid, edges) ==
  IF edges = <<>> THEN g
  ELSE BuildEdges(LtsAddEdge(g, uid, node0 + Head(edges).from, node0 + Head(edges).to,
                             Head(edges).kind.label, Head(edges).kind.isHidden,
                             Head(edges).kind.isDeadlock),
                  node0, uid + 1, Tail(edges))

BuildLts(node0, labels, edge0, edges) ==
  BuildEdges(BuildNodes(NewLts, node0, labels), node0, edge0, edges)

\* The graphs of exactly n nodes and k edges a caller builds when the
\* counters stand at node0 and edge0
Family(node0, edge0, n, k, kinds, labels) ==
  {BuildLts(node0, ls, edge0, es) :
     ls \in [1 .. n -> labels],
     es \in [1 .. k -> [from : 0 .. n - 1, to : 0 .. n - 1, kind : kinds]]}

\* Every node can be reached from the root
Connected(g) == LtsReachableNodes(g) = DOMAIN g.nodeMap

\* The connected graphs of at most maxNodes nodes and maxEdges edges a
\* caller builds when the counters stand at node0 and edge0
Graphs(node0, edge0, maxNodes, maxEdges, kinds, labels) ==
  UNION {{g \in Family(node0, edge0, n, k, kinds, labels) : Connected(g)} :
           n \in 1 .. maxNodes, k \in 0 .. maxEdges}

\* The caller holds the graphs gs, built one after the other
Built(gs) ==
  /\ heap = gs
  /\ orig = gs
  /\ args = [i \in 1 .. Len(gs) |-> i]
  /\ res = [op |-> "none", isFair |-> FALSE, ref |-> 0, value |-> FALSE,
            product |-> NewLts, changes |-> 0]
  /\ uids = [node |-> Max({0} \cup UNION {{n + 1 : n \in DOMAIN gs[i].nodeMap} : i \in 1 .. Len(gs)}),
             edge |-> Max({0} \cup UNION {{e + 1 : e \in DOMAIN gs[i].edgeMap} : i \in 1 .. Len(gs)})]
  /\ graph = NewGraph
  /\ calls = 0
  /\ issued = [node |-> <<>>, edge |-> <<>>]

Abstraction(isFair) ==
  /\ res.op = "none"
  /\ With(abstraction(heap, args[1], isFair, uids), LAMBDA r :
        /\ heap' = r.heap
        /\ uids' = r.uids
        /\ res' = [res EXCEPT !.op = "abstraction", !.isFair = isFair, !.ref = r.ref])
  /\ UNCHANGED <<graph, calls, args, orig, issued>>

FairAbstraction == Abstraction(TRUE)

UnfairAbstraction == Abstraction(FALSE)

Simplification ==
  /\ res.op = "none"
  /\ With(simplification(heap, args[1]), LAMBDA r :
        /\ heap' = r.heap
        /\ res' = [res EXCEPT !.op = "simplification", !.ref = r.ref])
  /\ UNCHANGED <<graph, calls, args, orig, uids, issued>>

IsEquivalent ==
  /\ res.op = "none"
  /\ Len(args) >= 2
  /\ With(isEquivalent(heap, args), LAMBDA r :
        /\ heap' = r.heap
        /\ res' = [res EXCEPT !.op = "isEquivalent", !.value = r.value])
  /\ UNCHANGED <<graph, calls, args, orig, uids, issued>>

ParallelComposition ==
  /\ res.op = "none"
  /\ Len(args) = 2
  /\ With(parallelComposition(heap, args[1], args[2], uids), LAMBDA r :
        /\ heap' = r.heap
        /\ uids' = r.uids
        /\ res' = [res EXCEPT !.op = "parallelComposition", !.ref = r.ref,
                              !.product = r.product])
  /\ UNCHANGED <<graph, calls, args, orig, issued>>

(***************************************************************************)
(* Abstraction called on one graph                                         *)
(***************************************************************************)

AbsMaxNodes == 2

AbsMaxEdges == 3

\* The edges are an action a, the action a hidden (isHidden set on an edge
\* that keeps its label), or a hidden edge labelled tau
InitAbs ==
  \E n \in 1 .. AbsMaxNodes, k \in 0 .. AbsMaxEdges :
    \E g \in Family(0, 0, n, k, {Visible("a"), Hidden("a"), Hidden("tau")}, {""}) :
      Connected(g) /\ Built(<<g>>)

NextAbs == FairAbstraction \/ UnfairAbstraction

SpecAbs == InitAbs /\ [][NextAbs]_vars

\* The label an edge that is not hidden shows
ObsAction(edge) == IF edge.isDeadlock THEN LtsDELTA ELSE edge.label

\* The nodes reached from the nodes of S by hidden edges alone
RECURSIVE TauClosure(_, _)
TauClosure(g, S) ==
  LET T == S \cup {g.edgeMap[e].to : e \in {x \in DOMAIN g.edgeMap :
                     g.edgeMap[x].isHidden /\ g.edgeMap[x].from \in S}}
  IN IF T = S THEN S ELSE TauClosure(g, T)

\* The observable traces of at most k steps from the nodes of S
RECURSIVE TracesFrom(_, _, _)
TracesFrom(g, S, k) ==
  LET C == TauClosure(g, S)
      shown == {e \in DOMAIN g.edgeMap : ~g.edgeMap[e].isHidden /\ g.edgeMap[e].from \in C}
  IN IF k = 0 THEN {<<>>}
     ELSE {<<>>} \cup UNION {
            {<<a>> \o t : t \in TracesFrom(g, {g.edgeMap[e].to : e \in {x \in shown :
                                                 ObsAction(g.edgeMap[x]) = a}}, k - 1)} :
            a \in {ObsAction(g.edgeMap[e]) : e \in shown}}

\* Observable traces are compared up to this length
TraceLen == 3

ObservableTraces(g) == TracesFrom(g, {g.rootId}, TraceLen)

HiddenLoops(g) ==
  {e \in DOMAIN g.edgeMap : g.edgeMap[e].isHidden /\ g.edgeMap[e].from = g.edgeMap[e].to}

\* C7: after fair abstraction the returned graph holds no hidden (tau) edge.
C7_NoHiddenAfterFair ==
  (res.op = "abstraction" /\ res.isFair) =>
    \A e \in DOMAIN heap[res.ref].edgeMap : ~heap[res.ref].edgeMap[e].isHidden

C7_Witness ==
  /\ res.op = "abstraction" /\ res.isFair
  /\ HiddenLoops(orig[1]) # {}
  /\ \E e \in DOMAIN orig[1].edgeMap : orig[1].edgeMap[e].isHidden /\ orig[1].edgeMap[e].label = "a"
  /\ heap[res.ref].edgeCount > 0

\* C8: after unfair abstraction the returned graph holds no hidden
\* self-loop, and for every reachable node u of the input that carries a
\* hidden self-loop it holds a deadlock edge from u to a node that is not
\* a node of the input and is tagged isTerminal = "error".
C8_UnfairDeadlocks ==
  (res.op = "abstraction" /\ ~res.isFair) =>
    /\ HiddenLoops(heap[res.ref]) = {}
    /\ \A u \in LtsReachableNodes(orig[1]) :
         (\E e \in HiddenLoops(orig[1]) : orig[1].edgeMap[e].from = u) =>
           \E d \in DOMAIN heap[res.ref].edgeMap :
             LET edge == heap[res.ref].edgeMap[d]
             IN /\ edge.isDeadlock
                /\ edge.from = u
                /\ edge.to \notin DOMAIN orig[1].nodeMap
                /\ edge.to \in DOMAIN heap[res.ref].nodeMap
                /\ heap[res.ref].nodeMap[edge.to].meta.isTerminal = "error"

\* C9: the observable traces from the root of the graph fair abstraction
\* returns are those of the graph it was given: none lost, none invented.
C9_TracesPreserved ==
  (res.op = "abstraction" /\ res.isFair) =>
    ObservableTraces(heap[res.ref]) = ObservableTraces(orig[1])
(***************************************************************************)
(* Simplification and equivalence                                          *)
(***************************************************************************)

SimMaxNodes == 3

SimMaxEdges == 3

\* The edges are an action a, an action b or a deadlock edge
InitSim ==
  \E n \in 1 .. SimMaxNodes, k \in 0 .. SimMaxEdges :
    \E g \in Family(0, 0, n, k, {Visible("a"), Visible("b"), Deadlock}, {""}) :
      Connected(g) /\ Built(<<g>>)

NextSim == Simplification

SpecSim == InitSim /\ [][NextSim]_vars

EqMaxNodes == 3

EqMaxEdges == 2

\* Two graphs built one after the other, so that no id is used twice
InitEq ==
  \E g1 \in Graphs(0, 0, EqMaxNodes, EqMaxEdges, {Visible("a"), Visible("b"), Deadlock}, {""}) :
    \E g2 \in Graphs(g1.nodeCount, g1.edgeCount, EqMaxNodes, EqMaxEdges,
                     {Visible("a"), Visible("b"), Deadlock}, {""}) : Built(<<g1, g2>>)

NextEq == IsEquivalent

SpecEq == InitEq /\ [][NextEq]_vars

\* The states of the graphs gs: a graph and one of its nodes
BisimStates(gs) == UNION {{<<i, n>> : n \in DOMAIN gs[i].nodeMap} : i \in 1 .. Len(gs)}

\* The transitions of the state s: the label shown and the state reached
BisimSteps(gs, s) ==
  {<<ObsAction(gs[s[1]].edgeMap[e]), <<s[1], gs[s[1]].edgeMap[e].to>>>> :
     e \in {x \in DOMAIN gs[s[1]].edgeMap : gs[s[1]].edgeMap[x].from = s[2]}}

\* Every transition of s is matched by one of t into R
Matched(gs, R, s, t) ==
  \A x \in BisimSteps(gs, s) : \E y \in BisimSteps(gs, t) : x[1] = y[1] /\ <<x[2], y[2]>> \in R

\* Strong bisimilarity: the largest relation whose pairs match each other
RECURSIVE LargestBisimulation(_, _)
LargestBisimulation(gs, R) ==
  LET S == {p \in R : Matched(gs, R, p[1], p[2]) /\ Matched(gs, R, p[2], p[1])}
  IN IF S = R THEN R ELSE LargestBisimulation(gs, S)

Bisimilar(gs, s, t) ==
  <<s, t>> \in LargestBisimulation(gs, BisimStates(gs) \X BisimStates(gs))

\* C4: the root of the graph simplification returns is strongly bisimilar
\* to the root of the graph it was given.
C4_SimplificationBisimilar ==
  res.op = "simplification" =>
    Bisimilar(<<orig[1], heap[res.ref]>>, <<1, orig[1].rootId>>, <<2, heap[res.ref].rootId>>)

\* C5: isEquivalent returns true exactly when the roots of the graphs it
\* was given are strongly bisimilar.
C5_EquivalentIffBisimilar ==
  res.op = "isEquivalent" =>
    (res.value <=> \A i \in 1 .. Len(orig) - 1 :
                     Bisimilar(orig, <<i, orig[i].rootId>>, <<i + 1, orig[i + 1].rootId>>))
(***************************************************************************)
(* Parallel composition                                                    *)
(***************************************************************************)

ParMaxNodes == 2

ParMaxEdges == 2

\* The edges are an action a or an action b; a node has no display label
\* or the label p
InitPar ==
  \E g1 \in Graphs(0, 0, ParMaxNodes, ParMaxEdges, {Visible("a"), Visible("b")}, {"", "p"}) :
    \E g2 \in Graphs(g1.nodeCount, g1.edgeCount, ParMaxNodes, ParMaxEdges,
                     {Visible("a"), Visible("b")}, {"", "p"}) : Built(<<g1, g2>>)

NextPar == ParallelComposition

SpecPar == InitPar /\ [][NextPar]_vars

\* The transitions of g: from, action, to
Moves(g) ==
  {<<g.edgeMap[e].from, ObsAction(g.edgeMap[e]), g.edgeMap[e].to>> : e \in DOMAIN g.edgeMap}

\* The alphabet of g
Actions(g) == {m[2] : m \in Moves(g)}

\* The transitions a parallel composition of g1 and g2 has, between pairs
\* of component nodes
ComposedMoves(g1, g2) ==
  {<<<<p[1][1], p[2][1]>>, p[1][2], <<p[1][3], p[2][3]>>>> :
     p \in {q \in Moves(g1) \X Moves(g2) : q[1][2] = q[2][2]}}
  \cup {<<<<p[1][1], p[2]>>, p[1][2], <<p[1][3], p[2]>>>> :
          p \in {m \in Moves(g1) : m[2] \notin Actions(g2)} \X DOMAIN g2.nodeMap}
  \cup {<<<<p[2], p[1][1]>>, p[1][2], <<p[2], p[1][3]>>>> :
          p \in {m \in Moves(g2) : m[2] \notin Actions(g1)} \X DOMAIN g1.nodeMap}

\* The pair of component nodes the product node id was created for, when
\* the first product node took the uid first: _combineStates makes the
\* nodes pair by pair, the nodes of g2 in the inner loop
PairOf(g1, g2, first, id) ==
  <<LtsNodes(g1)[((id - first) \div g2.nodeCount) + 1],
    LtsNodes(g2)[((id - first) % g2.nodeCount) + 1]>>

\* The transitions of the product, between the pairs its nodes were created for
ProductMoves(product, g1, g2, first) ==
  {<<PairOf(g1, g2, first, product.edgeMap[e].from), product.edgeMap[e].label,
     PairOf(g1, g2, first, product.edgeMap[e].to)>> : e \in DOMAIN product.edgeMap}

\* C6: before trimming, the edges of the product parallelComposition builds
\* are exactly the synchronised moves on shared actions and the interleaved
\* moves on the others, each between the product nodes created for the
\* pairs of component nodes concerned.
C6_ProductEdges ==
  res.op = "parallelComposition" =>
    /\ res.product.err = "none"
    /\ ProductMoves(res.product, orig[1], orig[2],
                    uids.node - orig[1].nodeCount * orig[2].nodeCount)
         = ComposedMoves(orig[1], orig[2])
(***************************************************************************)
(* A caller that goes on to change the graph an operation returned         *)
(***************************************************************************)

OpsMaxNodes == 2

OpsMaxEdges == 1

\* The changes a caller makes to the returned graph
MaxChanges == 1

\* The edges are an action a or a hidden edge labelled tau
InitOps ==
  \E g1 \in Graphs(0, 0, OpsMaxNodes, OpsMaxEdges, {Visible("a"), Hidden("tau")}, {""}) :
    \E g2 \in Graphs(g1.nodeCount, g1.edgeCount, OpsMaxNodes, OpsMaxEdges,
                     {Visible("a"), Hidden("tau")}, {""}) : Built(<<g1, g2>>)

\* An operation has returned a graph and the caller may still change it
Returned ==
  /\ res.op \in {"abstraction", "simplification", "parallelComposition"}
  /\ res.changes < MaxChanges

\* The caller replaces the returned graph by g (it calls a method on it)
Changed(g) ==
  /\ heap' = Store(heap, res.ref, g)
  /\ res' = [res EXCEPT !.changes = @ + 1]
  /\ UNCHANGED <<graph, calls, args, orig, issued>>

\* result.addNode(NodeUid.next)
ResultAddNode ==
  /\ Returned
  /\ Changed(LtsAddNode(heap[res.ref], uids.node, "", NoMeta))
  /\ uids' = [uids EXCEPT !.node = @ + 1]

\* result.removeNode(node)
ResultRemoveNode ==
  /\ Returned
  /\ \E n \in DOMAIN heap[res.ref].nodeMap : Changed(LtsRemoveNode(heap[res.ref], n))
  /\ UNCHANGED uids

\* result.addEdge(EdgeUid.next, from, to, 'a')
ResultAddEdge ==
  /\ Returned
  /\ \E from \in DOMAIN heap[res.ref].nodeMap, to \in DOMAIN heap[res.ref].nodeMap :
       Changed(LtsAddEdge(heap[res.ref], uids.edge, from, to, "a", FALSE, FALSE))
  /\ uids' = [uids EXCEPT !.edge = @ + 1]

\* result.removeEdge(edge)
ResultRemoveEdge ==
  /\ Returned
  /\ \E e \in DOMAIN heap[res.ref].edgeMap : Changed(LtsRemoveEdge(heap[res.ref], e))
  /\ UNCHANGED uids

\* node.addMetaData('isTerminal', 'error') on a node of the result
ResultAddMetaData ==
  /\ Returned
  /\ \E n \in DOMAIN heap[res.ref].nodeMap :
       Changed(LtsAddMetaData(heap[res.ref], n, "isTerminal", "error"))
  /\ UNCHANGED uids

NextOps ==
  \/ FairAbstraction
  \/ UnfairAbstraction
  \/ Simplification
  \/ ParallelComposition
  \/ ResultAddNode
  \/ ResultRemoveNode
  \/ ResultAddEdge
  \/ ResultRemoveEdge
  \/ ResultAddMetaData

SpecOps == InitOps /\ [][NextOps]_vars

\* C3: whatever operation was called, and whatever the caller has since
\* done to the graph it returned, every graph passed in is as it was built.
C3_InputsUnchanged ==
  \A i \in 1 .. Len(args) : heap[args[i]] = orig[i]

\* An operation returned a graph that differs from the graph passed in and
\* the caller has changed it
C3_Witness ==
  /\ res.op \in {"abstraction", "simplification", "parallelComposition"}
  /\ res.changes = MaxChanges
  /\ res.ref \notin {args[i] : i \in 1 .. Len(args)}
  /\ heap[res.ref] # orig[1]
  /\ orig[1].edgeCount > 0

(***************************************************************************)
(* Further claims about Graph.Operations                                   *)
(***************************************************************************)

\* simplification applied to the graph simplification returned
SimplifiedAgain ==
  With(simplification(heap, res.ref), LAMBDA r : r.heap[r.ref])

\* C12: simplification(simplification(G)) has the same number of nodes and
\* the same number of edges as simplification(G).
C12_SimplificationIdempotent ==
  res.op = "simplification" =>
    /\ SimplifiedAgain.nodeCount = heap[res.ref].nodeCount
    /\ SimplifiedAgain.edgeCount = heap[res.ref].edgeCount
    /\ Cardinality(DOMAIN SimplifiedAgain.nodeMap)
         = Cardinality(DOMAIN heap[res.ref].nodeMap)
    /\ Cardinality(DOMAIN SimplifiedAgain.edgeMap)
         = Cardinality(DOMAIN heap[res.ref].edgeMap)

\* simplification merged three nodes of a graph with three edges into one
C12_Witness ==
  /\ res.op = "simplification"
  /\ orig[1].nodeCount = 3
  /\ orig[1].edgeCount = 3
  /\ heap[res.ref].nodeCount = 1
  /\ heap[res.ref].err = "none"

(***************************************************************************)
(* Parallel composition of graphs with hidden and deadlock edges           *)
(***************************************************************************)

ComMaxNodes == 2

ComMaxEdges == 2

\* The edges are an action a, a hidden action a or a deadlock edge; the
\* nodes have no display label
InitCom ==
  \E g1 \in Graphs(0, 0, ComMaxNodes, ComMaxEdges,
                   {Visible("a"), Hidden("a"), Deadlock}, {""}) :
    \E g2 \in Graphs(g1.nodeCount, g1.edgeCount, ComMaxNodes, ComMaxEdges,
                     {Visible("a"), Hidden("a"), Deadlock}, {""}) : Built(<<g1, g2>>)

NextCom == ParallelComposition

SpecCom == InitCom /\ [][NextCom]_vars

\* The action of an edge: tau when it is hidden, delta when it is a
\* deadlock edge, its label otherwise
StrongAction(edge) ==
  IF edge.isHidden THEN "tau" ELSE IF edge.isDeadlock THEN "delta" ELSE edge.label

\* The transitions of the state s of the graphs gs
StrongSteps(gs, s) ==
  {<<StrongAction(gs[s[1]].edgeMap[e]), <<s[1], gs[s[1]].edgeMap[e].to>>>> :
     e \in {x \in DOMAIN gs[s[1]].edgeMap : gs[s[1]].edgeMap[x].from = s[2]}}

StrongMatched(gs, R, s, t) ==
  \A x \in StrongSteps(gs, s) :
    \E y \in StrongSteps(gs, t) : x[1] = y[1] /\ <<x[2], y[2]>> \in R

RECURSIVE StrongBisimulation(_, _)
StrongBisimulation(gs, R) ==
  LET S == {p \in R : StrongMatched(gs, R, p[1], p[2]) /\ StrongMatched(gs, R, p[2], p[1])}
  IN IF S = R THEN R ELSE StrongBisimulation(gs, S)

\* The roots of the graphs g and h are strongly bisimilar
RootsBisimilar(g, h) ==
  /\ g.err = "none" /\ h.err = "none"
  /\ <<<<1, g.rootId>>, <<2, h.rootId>>>>
       \in StrongBisimulation(<<g, h>>, BisimStates(<<g, h>>) \X BisimStates(<<g, h>>))

\* C13: for a graph G and a graph of one node and no edge,
\* parallelComposition(G, one-node graph) is strongly bisimilar to G.
C13_UnitOfComposition ==
  (res.op = "parallelComposition" /\ orig[2].nodeCount = 1 /\ orig[2].edgeCount = 0)
    => RootsBisimilar(orig[1], heap[res.ref])

\* parallelComposition(graph2, graph1) for the call made
Swapped ==
  With(parallelComposition(heap, args[2], args[1], uids), LAMBDA r : r.heap[r.ref])

\* C14: parallelComposition(G1, G2) and parallelComposition(G2, G1) are
\* strongly bisimilar.
C14_CompositionCommutes ==
  res.op = "parallelComposition" => RootsBisimilar(heap[res.ref], Swapped)

\* Label a is carried by an edge of both graphs
SharedAction(g1, g2, a) ==
  /\ \E e \in DOMAIN g1.edgeMap : ~g1.edgeMap[e].isDeadlock /\ g1.edgeMap[e].label = a
  /\ \E e \in DOMAIN g2.edgeMap : ~g2.edgeMap[e].isDeadlock /\ g2.edgeMap[e].label = a

\* Label a is hidden in g: an edge of g with that label is hidden
HiddenIn(g, a) ==
  \E e \in DOMAIN g.edgeMap : g.edgeMap[e].label = a /\ g.edgeMap[e].isHidden

\* C15: a product edge for an action a that both graphs carry is hidden
\* whenever a is hidden in either of the two graphs.
C15_HiddenFromEither ==
  res.op = "parallelComposition" =>
    \A e \in DOMAIN heap[res.ref].edgeMap :
      With(heap[res.ref].edgeMap[e], LAMBDA edge :
        (SharedAction(orig[1], orig[2], edge.label)
           /\ (HiddenIn(orig[1], edge.label) \/ HiddenIn(orig[2], edge.label)))
          => edge.isHidden)

(***************************************************************************)
(* Stop nodes: the operations applied to graphs with nodes tagged          *)
(* isTerminal = 'stop'                                                     *)
(***************************************************************************)

StopMaxNodes == 4

StopMaxEdges == 4

\* node.addMetaData('isTerminal', 'stop') for each node of the sequence
RECURSIVE TagStop(_, _)
TagStop(g, nodes) ==
  IF nodes = <<>> THEN g
  ELSE TagStop(LtsAddMetaData(g, Head(nodes), "isTerminal", "stop"), Tail(nodes))

\* The nodes of g without an outgoing edge
Sinks(g) == {n \in DOMAIN g.nodeMap : LtsEdgesFromMe(g, n) = <<>>}

\* g with any of its nodes without outgoing edges tagged stop
StopTagged(g) == {TagStop(g, Ascending(T)) : T \in SUBSET Sinks(g)}

\* The graphs of n nodes with a loop a at the root and k hidden edges, each
\* from a node to a node made later
HiddenDags(n, k) ==
  {BuildLts(0, [i \in 1 .. n |-> ""], 0,
            <<[from |-> 0, to |-> 0, kind |-> Visible("a")]>> \o es) :
     es \in [1 .. k -> {e \in [from : 0 .. n - 1, to : 0 .. n - 1, kind : {Hidden("tau")}] :
                          e.from < e.to}]}

\* One graph: a hidden dag or a graph of up to two nodes and two edges a or
\* tau; or two graphs of up to two nodes and one edge a.  Some nodes without
\* outgoing edges are tagged stop.
InitStop ==
  \/ \E n \in 1 .. StopMaxNodes, k \in 0 .. StopMaxEdges :
       \E g \in HiddenDags(n, k) : \E t \in StopTagged(g) : Connected(g) /\ Built(<<t>>)
  \/ \E g \in Graphs(0, 0, 2, 2, {Visible("a"), Hidden("tau")}, {""}) :
       \E t \in StopTagged(g) : Built(<<t>>)
  \/ \E g1 \in Graphs(0, 0, 2, 1, {Visible("a")}, {""}) :
       \E g2 \in Graphs(g1.nodeCount, g1.edgeCount, 2, 1, {Visible("a")}, {""}) :
         \E t1 \in StopTagged(g1), t2 \in StopTagged(g2) : Built(<<t1, t2>>)
  \/ InitGraph

NextStop ==
  \/ heap = <<>> /\ ApplyProcessStopNodes
  \/ heap # <<>> /\ FairAbstraction
  \/ heap # <<>> /\ UnfairAbstraction
  \/ heap # <<>> /\ Simplification
  \/ heap # <<>> /\ ParallelComposition

SpecStop == InitStop /\ [][NextStop]_vars

\* No node of the graph g of Graph.Operations tagged stop has an outgoing edge
StopNodesFinal(g) ==
  \A n \in DOMAIN g.nodeMap :
    g.nodeMap[n].meta.isTerminal = "stop" => LtsEdgesFromMe(g, n) = <<>>

\* C18: no node tagged isTerminal = 'stop' has an outgoing edge after
\* processStopNodes, nor in the result of fair abstraction, unfair
\* abstraction, simplification or parallelComposition applied to graphs
\* whose stop-tagged nodes have no outgoing edges.
C18_StopNodesFinal ==
  /\ res.op = "processStopNodes" =>
       \A node \in NodesOf(graph) :
         MetaIs(graph, node, "isTerminal", "stop") => edgesFromMe(graph, node) = <<>>
  /\ res.op \in {"abstraction", "simplification", "parallelComposition"} =>
       StopNodesFinal(heap[res.ref])

(***************************************************************************)
(* Part III.  The parser of src/app/elements/automata-parser/parser.js     *)
(*                                                                         *)
(* The input is a sequence of characters and a position is the number of   *)
(* characters before it (peg$currPos).  A rule returns                     *)
(*   [ok |-> TRUE, pos |-> the position after the match, node |-> value]   *)
(* or Failed (peg$FAILED, the position restored by the caller).            *)
(***************************************************************************)

\* undefined, where an AST node is expected
NoNode == [type |-> "undefined"]

\* var Node = { ... }
ModelNode(def, defs, relabel, hidden) ==
  [type |-> "model", definitions |-> <<def>> \o defs, relabel |-> relabel,
   hidden |-> hidden]

DefinitionNode(name, process) ==
  [type |-> "definition", name |-> name, process |-> process]

SequenceNode(from, to) == [type |-> "sequence", from |-> from, to |-> to]

ChoiceNode(option1, option2) ==
  [type |-> "choice", option1 |-> option1, option2 |-> option2]

ParallelNode(def1, def2) ==
  [type |-> "parallel", definition1 |-> def1, definition2 |-> def2]

NameNode(name) == [type |-> "name", name |-> name]

ActionNode(action) == [type |-> "action", action |-> action]

HideNode(hidden) == [type |-> "hide", hidden |-> hidden]

StopNode == [type |-> "stop"]

ErrorNode == [type |-> "error"]

\* peg$FAILED
Failed == [ok |-> FALSE, pos |-> 0, node |-> NoNode]

Parsed(pos, node) == [ok |-> TRUE, pos |-> pos, node |-> node]

\* input.charAt(pos)
CharAt(input, pos) == IF pos < Len(input) THEN input[pos + 1] ELSE ""

\* input.substr(pos, Len(lit)) === lit
LitAt(input, pos, lit) ==
  /\ pos + Len(lit) <= Len(input)
  /\ SubSeq(input, pos + 1, pos + Len(lit)) = lit

\* /^[A-Z]/, /^[a-z]/, /^[A-Za-z0-9_]/, /^[ \t\n\r]/
UpperChars ==
  {"A", "B", "C", "D", "E", "F", "G", "H", "I", "J", "K", "L", "M", "N", "O",
   "P", "Q", "R", "S", "T", "U", "V", "W", "X", "Y", "Z"}

LowerChars ==
  {"a", "b", "c", "d", "e", "f", "g", "h", "i", "j", "k", "l", "m", "n", "o",
   "p", "q", "r", "s", "t", "u", "v", "w", "x", "y", "z"}

WordChars ==
  UpperChars \cup LowerChars
    \cup {"0", "1", "2", "3", "4", "5", "6", "7", "8", "9", "_"}

SpaceChars == {" ", "\t", "\n", "\r"}

\* The position after the longest run of characters of a class
RECURSIVE SkipChars(_, _, _)
SkipChars(input, pos, class) ==
  IF CharAt(input, pos) \in class THEN SkipChars(input, pos + 1, class) ELSE pos

\* peg$parse_(): optional whitespace, never fails
Whitespace(input, pos) == SkipChars(input, pos, SpaceChars)

\* A symbol: the literal at the position, its text as the value
Symbol(input, pos, lit) ==
  IF LitAt(input, pos, lit) THEN Parsed(pos + Len(lit), lit) ELSE Failed

symbol_BracketLeft(input, pos) == Symbol(input, pos, <<"(">>)

symbol_Hide(input, pos) == Symbol(input, pos, <<"\\">>)

\* peg$parseStop, peg$parseError, peg$parseTerminal
parseStop(input, pos) ==
  IF LitAt(input, pos, <<"S", "T", "O", "P">>)
    THEN Parsed(pos + 4, StopNode) ELSE Failed

parseError(input, pos) ==
  IF LitAt(input, pos, <<"E", "R", "R", "O", "R">>)
    THEN Parsed(pos + 5, ErrorNode) ELSE Failed

parseTerminal(input, pos) ==
  With(parseStop(input, pos),
       LAMBDA s : IF s.ok THEN s ELSE parseError(input, pos))

\* peg$parseName: [A-Z][A-Za-z0-9_]*
parseName(input, pos) ==
  IF CharAt(input, pos) \in UpperChars
    THEN With(SkipChars(input, pos + 1, WordChars),
              LAMBDA end : Parsed(end, NameNode(SubSeq(input, pos + 1, end))))
    ELSE Failed

\* peg$parseAction: [a-z][A-Za-z0-9_]*
parseAction(input, pos) ==
  IF CharAt(input, pos) \in LowerChars
    THEN With(SkipChars(input, pos + 1, WordChars),
              LAMBDA end : Parsed(end, ActionNode(SubSeq(input, pos + 1, end))))
    ELSE Failed

\* s1 _ s3: the rule's first element, whitespace, then a symbol
ThenSymbol(input, s1, lit) ==
  IF s1.ok THEN Symbol(input, Whitespace(input, s1.pos), lit) ELSE Failed

\* peg$parseAction_OR_Brace
RECURSIVE parseAction_OR_Brace(_, _)
parseAction_OR_Brace(input, pos) ==
  With(parseAction(input, pos), LAMBDA s1 :
    With(ThenSymbol(input, s1, <<"}">>), LAMBDA s3 :
      IF s3.ok THEN Parsed(s3.pos, HideNode(s1.node.action))
      ELSE With(ThenSymbol(input, s1, <<",">>), LAMBDA sep :
        IF ~sep.ok THEN Failed
        ELSE With(parseAction_OR_Brace(input, Whitespace(input, sep.pos)),
                  LAMBDA s5 :
               IF s5.ok THEN Parsed(s5.pos, HideNode(<<s1.node, s5.node>>))
               ELSE Failed))))

\* peg$parseProcess_Hide
parseProcess_Hide(input, pos) ==
  With(ThenSymbol(input, symbol_Hide(input, pos), <<"{">>), LAMBDA s3 :
    IF ~s3.ok THEN Failed
    ELSE With(parseAction_OR_Brace(input, Whitespace(input, s3.pos)),
              LAMBDA s5 :
           IF s5.ok THEN Parsed(s5.pos, HideNode(s5.node)) ELSE Failed))

RECURSIVE parseProcess_Standard(_, _)
RECURSIVE parseProcess_Standard_Nested(_, _)
RECURSIVE parseProcess_Choice(_, _)
RECURSIVE parseProcess_Sequence(_, _)
RECURSIVE parseName_OR_Choice(_, _)
RECURSIVE parseName_OR_Sequence(_, _)
RECURSIVE parseTerminal_OR_Brackets(_, _)

\* peg$parseTerminal_OR_Brackets
parseTerminal_OR_Brackets(input, pos) ==
  With(parseTerminal(input, pos), LAMBDA t :
    IF t.ok THEN t
    ELSE With(symbol_BracketLeft(input, pos), LAMBDA s1 :
      IF ~s1.ok THEN Failed
      ELSE With(parseProcess_Standard(input, Whitespace(input, s1.pos)),
                LAMBDA s3 :
             With(ThenSymbol(input, s3, <<")">>), LAMBDA s5 :
               IF s5.ok THEN Parsed(s5.pos, s3.node) ELSE Failed))))

\* peg$parseName_OR_Sequence
parseName_OR_Sequence(input, pos) ==
  With(parseProcess_Sequence(input, pos),
       LAMBDA s : IF s.ok THEN s ELSE parseName(input, pos))

\* peg$parseName_OR_Choice
parseName_OR_Choice(input, pos) ==
  With(parseName(input, pos),
       LAMBDA s : IF s.ok THEN s ELSE parseProcess_Choice(input, pos))

\* peg$parseProcess_Sequence
parseProcess_Sequence(input, pos) ==
  With(parseAction(input, pos), LAMBDA s1 :
    With(ThenSymbol(input, s1, <<"-", ">">>), LAMBDA s3 :
      With(IF s3.ok
             THEN parseName_OR_Sequence(input, Whitespace(input, s3.pos))
             ELSE Failed,
           LAMBDA s5 :
        IF s5.ok THEN Parsed(s5.pos, SequenceNode(s1.node, s5.node))
        ELSE parseTerminal_OR_Brackets(input, pos))))

\* peg$parseProcess_Choice
parseProcess_Choice(input, pos) ==
  With(parseProcess_Sequence(input, pos), LAMBDA s1 :
    With(ThenSymbol(input, s1, <<"|">>), LAMBDA s3 :
      With(IF s3.ok
             THEN parseProcess_Choice(input, Whitespace(input, s3.pos))
             ELSE Failed,
           LAMBDA s5 :
        IF s5.ok THEN Parsed(s5.pos, ChoiceNode(s1.node, s5.node))
        ELSE s1)))

\* The first alternative of peg$parseProcess_Standard and of
\* peg$parseProcess_Standard_Nested: Name_OR_Choice _ Process_Standard_Nested
ParallelOf(input, pos) ==
  With(parseName_OR_Choice(input, pos), LAMBDA s1 :
    IF ~s1.ok THEN Failed
    ELSE With(parseProcess_Standard_Nested(input, Whitespace(input, s1.pos)),
              LAMBDA s3 :
           IF s3.ok THEN Parsed(s3.pos, ParallelNode(s1.node, s3.node))
           ELSE Failed))

\* peg$parseProcess_Standard_Nested
parseProcess_Standard_Nested(input, pos) ==
  With(ParallelOf(input, pos),
       LAMBDA s : IF s.ok THEN s ELSE parseProcess_Choice(input, pos))

\* peg$parseProcess_Standard
parseProcess_Standard(input, pos) ==
  With(ParallelOf(input, pos),
       LAMBDA s : IF s.ok THEN s ELSE parseProcess_Choice(input, pos))

\* peg$parseDefinition
parseDefinition(input, pos) ==
  With(parseName(input, pos), LAMBDA s1 :
    With(ThenSymbol(input, s1, <<"=">>), LAMBDA s3 :
      IF ~s3.ok THEN Failed
      ELSE With(parseProcess_Standard(input, Whitespace(input, s3.pos)),
                LAMBDA s5 :
             IF s5.ok THEN Parsed(s5.pos, DefinitionNode(s1.node, s5.node))
             ELSE Failed)))

RECURSIVE parseModel(_, _)

\* First alternative of peg$parseModel: _ Definition _ "." _
ModelEnd(input, s2) ==
  With(ThenSymbol(input, s2, <<".">>), LAMBDA s4 :
    IF s4.ok
      THEN Parsed(Whitespace(input, s4.pos),
                   ModelNode(s2.node, <<>>, NoNode, NoNode))
      ELSE Failed)

\* Second alternative: _ Definition _ "," _ Model _
ModelList(input, s2) ==
  With(ThenSymbol(input, s2, <<",">>), LAMBDA s4 :
    IF ~s4.ok THEN Failed
    ELSE With(parseModel(input, Whitespace(input, s4.pos)), LAMBDA s6 :
      IF s6.ok
        THEN Parsed(Whitespace(input, s6.pos),
                     ModelNode(s2.node, s6.node.definitions, NoNode, NoNode))
        ELSE Failed))

\* Third alternative: _ Definition _ Process_Hide _ "." _
ModelHide(input, s2) ==
  IF ~s2.ok THEN Failed
  ELSE With(parseProcess_Hide(input, Whitespace(input, s2.pos)), LAMBDA s4 :
    With(ThenSymbol(input, s4, <<".">>), LAMBDA s6 :
      IF s6.ok
        THEN Parsed(Whitespace(input, s6.pos),
                     ModelNode(s2.node, <<>>, NoNode, s4.node))
        ELSE Failed))

\* peg$parseModel.  Each alternative parses the definition at the same
\* position, with the same result.
parseModel(input, pos) ==
  With(parseDefinition(input, Whitespace(input, pos)), LAMBDA s2 :
    With(ModelEnd(input, s2), LAMBDA a1 :
      IF a1.ok THEN a1
      ELSE With(ModelList(input, s2), LAMBDA a2 :
        IF a2.ok THEN a2 ELSE ModelHide(input, s2))))

\* peg$parseFile: models until one fails
RECURSIVE parseFile(_, _, _)
parseFile(input, pos, s0) ==
  With(parseModel(input, pos), LAMBDA s1 :
    IF s1.ok THEN parseFile(input, s1.pos, Append(s0, s1.node))
    ELSE [pos |-> pos, value |-> s0])

\* peg$parse(input): the list of models, or a SyntaxError when the input
\* was not consumed to its end
pegParse(input) ==
  With(parseFile(input, 0, <<>>), LAMBDA result :
    IF result.pos = Len(input)
      THEN [op |-> "parse", err |-> "none", value |-> result.value]
      ELSE [op |-> "parse", err |-> "SyntaxError", value |-> <<>>])

(***************************************************************************)
(* The parser applied to the texts a user types                            *)
(***************************************************************************)

\* Definitions of a model with a list of definitions
MaxDefs == 3

\* The words and symbols of the texts
STOP == <<"S", "T", "O", "P">>

ERROR == <<"E", "R", "R", "O", "R">>

BarBar == <<"|", "|">>

Bar == <<"|">>

Arrow == <<"-", ">">>

\* The text of a sequence of words: one space between two words, none
\* before "." "," "}" and none after "\" "{"
RECURSIVE Text(_)
Text(words) ==
  IF Len(words) <= 1 THEN Flatten(words)
  ELSE IF \/ words[2] \in {<<".">>, <<",">>, <<"}">>}
          \/ words[1] \in {<<"\\">>, <<"{">>}
    THEN words[1] \o Text(Tail(words))
  ELSE words[1] \o <<" ">> \o Text(Tail(words))

\* a -> STOP, b -> STOP, (a -> STOP), Q, STOP
SimpleProcesses ==
  {<<<<"a">>, Arrow, STOP>>, <<<<"b">>, Arrow, STOP>>,
   <<<<"(">>, <<"a">>, Arrow, STOP, <<")">>>>, <<<<"Q">>>>, <<STOP>>}

\* One process, or two with "||", with "|" or with nothing between them
Processes ==
  SimpleProcesses
    \cup {x \o join \o y : x, y \in SimpleProcesses,
                            join \in {<<BarBar>>, <<Bar>>, <<>>}}

\* N = process
DefinitionsOf(processes) ==
  {<<name, <<"=">>>> \o p : name \in {<<"P">>, <<"Q">>, STOP, ERROR},
                            p \in processes}

\* Nothing, \{b}, \{a, b}
HideSets ==
  {<<>>, <<<<"\\">>, <<"{">>, <<"b">>, <<"}">>>>,
   <<<<"\\">>, <<"{">>, <<"a">>, <<",">>, <<"b">>, <<"}">>>>}

\* k definitions separated by ","
RECURSIVE DefinitionLists(_, _)
DefinitionLists(defs, k) ==
  IF k = 1 THEN defs
  ELSE {d \o <<<<",">>>> \o rest : d \in defs, rest \in DefinitionLists(defs, k - 1)}

InitParse ==
  /\ graph = NewGraph
  /\ calls = 0
  /\ heap = <<>>
  /\ uids = [node |-> 0, edge |-> 0]
  /\ orig = <<>>
  /\ issued = [node |-> <<>>, edge |-> <<>>]
  /\ res = [op |-> "none"]
  /\ \E hide \in HideSets :
       \E defs \in DefinitionsOf(Processes)
                    \cup UNION {DefinitionLists(
                                  DefinitionsOf({<<<<"a">>, Arrow, STOP>>,
                                                 <<<<"b">>, Arrow, STOP>>}), k) :
                                  k \in 2 .. MaxDefs} :
         args = <<defs \o hide \o <<<<".">>>>>>

\* PEG.automataParser.parse(code)
Parse ==
  /\ res.op = "none"
  /\ res' = pegParse(Text(args[1]))
  /\ UNCHANGED <<graph, calls, heap, uids, args, orig, issued>>

NextParse == Parse

SpecParse == InitParse /\ [][NextParse]_vars

\* The words before an "=": the names the text defines
DefinitionNames(words) ==
  {words[i] : i \in {j \in 1 .. Len(words) - 1 : words[j + 1] = <<"=">>}}

\* The processes of the definitions of the models parsed
ParsedDefinitions ==
  UNION {Range(res.value[m].definitions) : m \in 1 .. Len(res.value)}

\* C21: the parser produces a Parallel node exactly when two processes are
\* separated by "||": P = a -> STOP || a -> STOP. is accepted and gives a
\* definition whose process is a Parallel, and two processes written next
\* to each other without "||" give no Parallel.
C21_ParallelIffSymbol ==
  res.op = "parse" =>
    ((res.err = "none" /\ \E d \in ParsedDefinitions : d.process.type = "parallel")
       <=> Contains(args[1], BarBar))

\* The action names of the hide set a text ends with
HideNames(words) ==
  IF ~Contains(words, <<"{">>) THEN <<>>
  ELSE With(CHOOSE i \in 1 .. Len(words) : words[i] = <<"{">>, LAMBDA i :
         SelectSeq(SubSeq(words, i + 1, Len(words)),
                   LAMBDA w : w \notin {<<",">>, <<"}">>, <<".">>}))

\* The value of a hide set with these action names: what Process_Hide
\* returns for \{n1, ..., nk}
RECURSIVE HideList(_)
HideList(names) ==
  IF Len(names) = 1 THEN HideNode(names[1])
  ELSE HideNode(<<ActionNode(names[1]), HideList(Tail(names))>>)

HideOf(names) == HideNode(HideList(names))

\* C22: when the definition list of a model ends with a hide set, the model
\* the parser produces carries that hide set, however many definitions
\* separated by commas come before it.
C22_HideSetCarried ==
  res.op = "parse" /\ res.err = "none" /\ HideNames(args[1]) # <<>> =>
    /\ Len(res.value) = 1
    /\ res.value[1].hidden.type = "hide"
    /\ res.value[1].hidden = HideOf(HideNames(args[1]))

\* The names in a process
RECURSIVE NamesIn(_)
NamesIn(node) ==
  CASE node.type = "name" -> {node.name}
    [] node.type = "sequence" -> NamesIn(node.to)
    [] node.type = "choice" -> NamesIn(node.option1) \cup NamesIn(node.option2)
    [] node.type = "parallel" ->
         NamesIn(node.definition1) \cup NamesIn(node.definition2)
    [] OTHER -> {}

\* C23: STOP and ERROR are reserved: the parser produces no Name and no
\* Definition named STOP or ERROR, and a text that defines one of them, as
\* STOP = a -> STOP. does, is rejected with a syntax error.
C23_ReservedNamesRejected ==
  res.op = "parse" =>
    /\ res.err = "none" =>
         \A d \in ParsedDefinitions :
           /\ d.name.name \notin {STOP, ERROR}
           /\ NamesIn(d.process) \cap {STOP, ERROR} = {}
    /\ DefinitionNames(args[1]) \cap {STOP, ERROR} # {} =>
         res.err = "SyntaxError"

(***************************************************************************)
(* Part IV.  The expression evaluator of                                   *)
(* src/app/scripts/expression-interpreter.js                               *)
(*                                                                         *)
(* A JavaScript number is a record [kind, sign, num, den]: kind "finite"   *)
(* with the magnitude num / den in lowest terms (zero is 0 / 1 and keeps   *)
(* its sign, as in IEEE 754), kind "infinite" with a sign, or kind "nan".  *)
(* The quotients of the small integers of the expressions below are held   *)
(* exactly; whether a number is zero does not depend on rounding there.    *)
(***************************************************************************)

Finite(sign, num, den) ==
  [kind |-> "finite", sign |-> sign, num |-> num, den |-> den]

Infinite(sign) == [kind |-> "infinite", sign |-> sign, num |-> 0, den |-> 1]

NaN == [kind |-> "nan", sign |-> 1, num |-> 0, den |-> 1]

IsZero(v) == v.kind = "finite" /\ v.num = 0

RECURSIVE Gcd(_, _)
Gcd(a, b) == IF b = 0 THEN a ELSE Gcd(b, a % b)

\* The finite number sign * num / den in lowest terms
Lowest(sign, num, den) ==
  Finite(sign, num \div Gcd(num, den), den \div Gcd(num, den))

Negated(v) == IF v.kind = "nan" THEN v ELSE [v EXCEPT !.sign = -v.sign]

\* operand1 + operand2
JsAdd(a, b) ==
  IF a.kind = "nan" \/ b.kind = "nan" THEN NaN
  ELSE IF a.kind = "infinite"
    THEN IF b.kind = "infinite" /\ b.sign # a.sign THEN NaN ELSE a
  ELSE IF b.kind = "infinite" THEN b
  ELSE With(a.sign * a.num * b.den + b.sign * b.num * a.den, LAMBDA sum :
         IF sum = 0
           THEN Finite(IF IsZero(a) /\ IsZero(b) /\ a.sign = -1 /\ b.sign = -1
                         THEN -1 ELSE 1, 0, 1)
         ELSE IF sum > 0 THEN Lowest(1, sum, a.den * b.den)
         ELSE Lowest(-1, -sum, a.den * b.den))

\* operand1 - operand2
JsSubtract(a, b) == JsAdd(a, Negated(b))

\* operand1 * operand2
JsMultiply(a, b) ==
  IF a.kind = "nan" \/ b.kind = "nan" THEN NaN
  ELSE IF a.kind = "infinite" \/ b.kind = "infinite"
    THEN IF IsZero(a) \/ IsZero(b) THEN NaN ELSE Infinite(a.sign * b.sign)
  ELSE Lowest(a.sign * b.sign, a.num * b.num, a.den * b.den)

\* operand1 / operand2: a zero divisor gives NaN or an infinity
JsDivide(a, b) ==
  IF a.kind = "nan" \/ b.kind = "nan" THEN NaN
  ELSE IF a.kind = "infinite"
    THEN IF b.kind = "infinite" THEN NaN ELSE Infinite(a.sign * b.sign)
  ELSE IF b.kind = "infinite" THEN Finite(a.sign * b.sign, 0, 1)
  ELSE IF IsZero(b)
    THEN IF IsZero(a) THEN NaN ELSE Infinite(a.sign * b.sign)
  ELSE Lowest(a.sign * b.sign, a.num * b.den, a.den * b.num)

\* operand1 % operand2: the remainder has the sign of the dividend; a zero
\* divisor gives NaN
JsModulo(a, b) ==
  IF a.kind = "nan" \/ b.kind = "nan" THEN NaN
  ELSE IF a.kind = "infinite" \/ IsZero(b) THEN NaN
  ELSE IF b.kind = "infinite" \/ IsZero(a) THEN a
  ELSE With((a.num * b.den) % (b.num * a.den), LAMBDA rem :
         Lowest(a.sign, rem, a.den * b.den))

\* An expression tree: a number, a variable name, or an operator with two
\* operands
NumberOf(n) == [operator |-> "undefined", typeof |-> "number", value |-> n]

VariableOf(name) == [operator |-> "undefined", typeof |-> "string", name |-> name]

OperatorOf(operator, operand1, operand2) ==
  [operator |-> operator, operand1 |-> operand1, operand2 |-> operand2]

\* return value / throw error
Value(v) == [err |-> "none", value |-> v]

Thrown(message) == [err |-> message, value |-> NaN]

\* processBaseExpression(expression, variableMap)
processBaseExpression(expression, variableMap) ==
  IF expression.typeof = "number"
    THEN Value(IF expression.value >= 0
                 THEN Finite(1, expression.value, 1)
                 ELSE Finite(-1, -expression.value, 1))
  ELSE IF expression.name \notin DOMAIN variableMap
    THEN Thrown("is not a valid variable name")
  ELSE Value(Finite(1, variableMap[expression.name], 1))

\* The two processOperand calls of an arithmetic operator, the first
\* exception thrown ending the evaluation, then the operator F
Operands(r1, r2, F(_, _)) ==
  IF r1.err # "none" THEN r1
  ELSE IF r2.err # "none" THEN r2
  ELSE Value(F(r1.value, r2.value))

\* processExpression(expression, variableMap), for the operators + - * / %
\* with processOperand(operand, !AS_BOOLEAN, variableMap)
RECURSIVE processExpression(_, _)
processExpression(expression, variableMap) ==
  IF expression.operator = "undefined"
    THEN processBaseExpression(expression, variableMap)
  ELSE With(processExpression(expression.operand1, variableMap), LAMBDA r1 :
    With(IF r1.err = "none"
           THEN processExpression(expression.operand2, variableMap) ELSE r1,
         LAMBDA r2 :
      CASE expression.operator = "+" -> Operands(r1, r2, JsAdd)
        [] expression.operator = "-" -> Operands(r1, r2, JsSubtract)
        [] expression.operator = "*" -> Operands(r1, r2, JsMultiply)
        [] expression.operator = "/" -> Operands(r1, r2, JsDivide)
        [] expression.operator = "%" -> Operands(r1, r2, JsModulo)
        [] OTHER -> Thrown("Attempting to process invalid operator")))

\* interpretExpression(expTree, variableMap)
interpretExpression(expTree, variableMap) ==
  With(processExpression(expTree, variableMap), LAMBDA r :
    [op |-> "interpret", err |-> r.err, value |-> r.value])

(***************************************************************************)
(* The evaluator applied to expression trees                               *)
(***************************************************************************)

\* Operators above one another in a tree
ExprDepth == 2

\* The trees of a depth: the numbers 0, 1, 2, the variables x and y, and
\* the five operators over trees of a lower depth
RECURSIVE Expressions(_)
Expressions(depth) ==
  IF depth = 0
    THEN {NumberOf(n) : n \in 0 .. 2} \cup {VariableOf(v) : v \in {"x", "y"}}
  ELSE Expressions(depth - 1)
         \cup {OperatorOf(o, a, b) : o \in {"+", "-", "*", "/", "%"},
                                     a, b \in Expressions(depth - 1)}

\* The variable map of the caller: x is 0, y is not a variable
InitExpr ==
  /\ graph = NewGraph
  /\ calls = 0
  /\ heap = <<>>
  /\ uids = [node |-> 0, edge |-> 0]
  /\ orig = <<>>
  /\ issued = [node |-> <<>>, edge |-> <<>>]
  /\ res = [op |-> "none"]
  /\ \E expTree \in Expressions(ExprDepth) : args = <<expTree, [x |-> 0]>>

InterpretExpression ==
  /\ res.op = "none"
  /\ res' = interpretExpression(args[1], args[2])
  /\ UNCHANGED <<graph, calls, heap, uids, args, orig, issued>>

NextExpr == InterpretExpression

SpecExpr == InitExpr /\ [][NextExpr]_vars

\* The evaluation reaches a division or a modulo whose second operand
\* evaluates to 0
RECURSIVE DividesByZero(_, _)
DividesByZero(expression, variableMap) ==
  /\ expression.operator # "undefined"
  /\ With(processExpression(expression.operand1, variableMap), LAMBDA r1 :
       With(processExpression(expression.operand2, variableMap), LAMBDA r2 :
         \/ DividesByZero(expression.operand1, variableMap)
         \/ r1.err = "none" /\ DividesByZero(expression.operand2, variableMap)
         \/ /\ expression.operator \in {"/", "%"}
            /\ r1.err = "none" /\ r2.err = "none" /\ IsZero(r2.value)))

\* C24: evaluating x / y or x % y when y evaluates to 0 fails with an error
\* instead of returning a value.
C24_DivisionByZeroFails ==
  res.op = "interpret" /\ DividesByZero(args[1], args[2]) => res.err # "none"

(***************************************************************************)
(* Simplification of graphs whose root is any of their nodes               *)
(***************************************************************************)

SurvMaxNodes == 3

SurvMaxEdges == 2

\* The caller builds a graph with edges a and b and makes any node from
\* which every node can be reached the root: graph.root = graph.getNode(id)
InitSurv ==
  \E n \in 1 .. SurvMaxNodes, k \in 0 .. SurvMaxEdges :
    \E g \in Family(0, 0, n, k, {Visible("a"), Visible("b")}, {""}) :
      \E id \in DOMAIN g.nodeMap :
        /\ Connected(LtsSetRoot(g, id))
        /\ Built(<<LtsSetRoot(g, id)>>)

NextSurv == Simplification

SpecSurv == InitSurv /\ [][NextSurv]_vars

\* The classes of equally coloured nodes of a graph with more than one node
ColourClasses(g) ==
  With(Coloring(<<g>>).coloredNodes, LAMBDA coloredNodes :
    {c \in {{m \in DOMAIN g.nodeMap : coloredNodes[m].color = coloredNodes[n].color} :
              n \in DOMAIN g.nodeMap} : Cardinality(c) > 1})

\* Of every merged class of the graph before, the graph after holds the
\* node survivor(class) alone, and it is the root when the class held the
\* root
SurvivorIs(before, after, survivor(_)) ==
  \A class \in ColourClasses(before) :
    /\ class \cap DOMAIN after.nodeMap = {survivor(class)}
    /\ before.rootId \in class => after.rootId = survivor(class)

LowestOf(class) == Min(class)

RootOrLowestOf(class) ==
  IF orig[1].rootId \in class THEN orig[1].rootId ELSE Min(class)

\* C25 (as stated): when simplification merges a class of equally coloured
\* nodes the surviving node is the one with the lowest id of the class, and
\* if a merged node was the root the survivor is the root of the result.
C25_LowestIdSurvives ==
  res.op = "simplification" =>
    SurvivorIs(orig[1], heap[res.ref], LowestOf)

\* C25 (amended): the surviving node of a merged class is the root when the
\* class holds the root and the node with the lowest id otherwise, and if a
\* merged node was the root the survivor is the root of the result.
C25_RootOrLowestIdSurvives ==
  res.op = "simplification" =>
    SurvivorIs(orig[1], heap[res.ref], RootOrLowestOf)

\* A class that holds the root, which is not its lowest id, has been merged
C25_Witness ==
  /\ res.op = "simplification"
  /\ \E class \in ColourClasses(orig[1]) :
       orig[1].rootId \in class /\ orig[1].rootId # Min(class)

(***************************************************************************)
(* _bisimulation, one round of its while loop at a time                    *)
(*                                                                         *)
(* res holds the local variables of the call: the references to the clones *)
(* (clones), coloredNodes, colorMap and previousLength, and lengths, the   *)
(* value colorMap.length had after each round so far.                      *)
(***************************************************************************)

RefMaxNodes == 3

RefMaxEdges == 3

\* The graph has cycles, self-loops and deadlock edges among its edges a, b
InitRefine ==
  \E n \in 1 .. RefMaxNodes, k \in 0 .. RefMaxEdges :
    \E g \in Family(0, 0, n, k, {Visible("a"), Visible("b"), Deadlock}, {""}) :
      Connected(g) /\ Built(<<g>>)

\* The clones the call colours
ClonesOf(r) == [k \in 1 .. Len(r.clones) |-> heap[r.clones[k]]]

\* _bisimulation(graphs) up to the while loop
BeginBisimulation ==
  /\ res.op = "none"
  /\ With(CloneAll(heap, args), LAMBDA c :
       /\ heap' = c.heap
       /\ With([k \in 1 .. Len(c.refs) |-> c.heap[c.refs[k]]], LAMBDA cs :
            res' = [op |-> "coloring", clones |-> c.refs,
                    coloredNodes |-> InitialColoredNodes(cs),
                    colorMap |-> <<>>, previousLength |-> -1, lengths |-> <<>>]))
  /\ UNCHANGED <<graph, calls, args, orig, uids, issued>>

\* One round of the loop: while(previousLength < colorMap.length)
RefineRound ==
  /\ res.op = "coloring"
  /\ res.previousLength < Len(res.colorMap)
  /\ With(ClonesOf(res), LAMBDA cs :
       With(constructColoring(cs, res.coloredNodes), LAMBDA colorMap :
         With(applyColoring(cs, res.coloredNodes, colorMap), LAMBDA coloredNodes :
           res' = [res EXCEPT !.previousLength = Len(res.colorMap),
                              !.colorMap = colorMap,
                              !.coloredNodes = coloredNodes,
                              !.lengths = Append(@, Len(colorMap))])))
  /\ UNCHANGED <<graph, calls, heap, args, orig, uids, issued>>

\* The loop ends; equally coloured nodes are merged and duplicate edges
\* removed
EndBisimulation ==
  /\ res.op = "coloring"
  /\ ~(res.previousLength < Len(res.colorMap))
  /\ heap' = MergeAll([heap |-> heap, refs |-> res.clones],
                      [coloredNodes |-> res.coloredNodes, colorMap |-> res.colorMap]).heap
  /\ res' = [res EXCEPT !.op = "colored"]
  /\ UNCHANGED <<graph, calls, args, orig, uids, issued>>

NextRefine == BeginBisimulation \/ RefineRound \/ EndBisimulation

SpecRefine == InitRefine /\ [][NextRefine]_vars

\* A call, once made, runs on to its end: the weak fairness of NextRefine,
\* whose steps all change res and which is enabled until the call has
\* returned, with ENABLED <<NextRefine>>_vars written out as its guard
SpecRefineLive ==
  SpecRefine /\ ([]<>(res.op = "colored") \/ []<><<NextRefine>>_vars)

\* The nodes that share a colour after a round shared one before it
Refines(after, before) ==
  \A m, n \in DOMAIN after :
    after[m].color = after[n].color => before[m].color = before[n].color

\* C26: the colour-refinement loop of _bisimulation terminates on every
\* finite graph, with cycles, self-loops and deadlock edges: the partition
\* of each round refines that of the round before, so the number of
\* distinct colourings never decreases, and the loop stops at the first
\* round in which that number does not grow.
C26_RefinementTerminates ==
  /\ <>(res.op = "colored")
  /\ [][res.op = "coloring" /\ res'.op = "coloring" =>
          /\ Refines(res'.coloredNodes, res.coloredNodes)
          /\ Len(res'.colorMap) >= Len(res.colorMap)]_vars
  /\ [][res.op = "coloring" =>
          (res'.op = "colored" <=>
             /\ Len(res.lengths) > 0
             /\ res.lengths[Len(res.lengths)]
                  <= (IF Len(res.lengths) = 1 THEN 0
                      ELSE res.lengths[Len(res.lengths) - 1]))]_vars

\* The loop has ended after three rounds on a graph with a cycle
C26_Witness ==
  /\ res.op = "colored"
  /\ Len(res.lengths) >= 3
  /\ \E e \in DOMAIN orig[1].edgeMap :
       orig[1].edgeMap[e].from = orig[1].edgeMap[e].to

(***************************************************************************)
(* Graph.deepClone of src/app/scripts/graph.es6.js, on the graphs of       *)
(* Part I                                                                  *)
(***************************************************************************)

\* deepClone(), the loop over _nodeMap
RECURSIVE DeepCloneNodes(_, _, _)
DeepCloneNodes(clone, g, last) ==
  LET keys == {k \in DOMAIN g.nodeMap : k > last}
      key  == Min(keys)
      n    == g.nodeObjs[g.nodeMap[key]]
  IN IF clone.err # "none" \/ keys = {} THEN clone
     ELSE DeepCloneNodes(addNode(clone, n.id, n.label, n.meta), g, key)

\* deepClone(), the loop over _edgeMap: addEdge takes the label the getter
\* returns and has no parameter for the fifth and the sixth argument
RECURSIVE DeepCloneEdges(_, _, _)
DeepCloneEdges(clone, g, last) ==
  LET keys == {k \in DOMAIN g.edgeMap : k > last}
      key  == Min(keys)
      h    == g.edgeMap[key]
      e    == g.edgeObjs[h]
  IN IF clone.err # "none" \/ keys = {} THEN clone
     ELSE IF EdgeFrom(g, h) = undefined \/ EdgeTo(g, h) = undefined
       THEN Throw(clone, "TypeError")
     ELSE With(getNode(clone, g.nodeObjs[EdgeFrom(g, h)].id), LAMBDA from :
            With(getNode(clone, g.nodeObjs[EdgeTo(g, h)].id), LAMBDA to :
              IF from = undefined \/ to = undefined
                THEN Throw(clone, "TypeError")
              ELSE DeepCloneEdges(addEdge(clone, e.id, from, to, e.label), g, key)))

\* deepClone()
GraphDeepClone(g) ==
  With(DeepCloneEdges(DeepCloneNodes(NewGraph, g, undefined), g, undefined),
       LAMBDA clone : IF clone.err # "none" THEN clone
                      ELSE SetRootNodeById(clone, g.rootId))

\* A graph is built, then cloned
DeepClone ==
  /\ res.op = "none"
  /\ res' = [op |-> "deepClone", clone |-> GraphDeepClone(Call)]
  /\ UNCHANGED <<graph, calls, heap, uids, args, orig, issued>>

NextClone ==
  \/ res.op = "none" /\ (AddNode \/ AddEdge \/ AssignRoot \/ AssignLabel \/ HideEdge)
  \/ DeepClone

SpecClone == Init /\ [][NextClone]_vars

\* What a graph is worth: its nodes by id with label and meta data, its
\* edges by id with the ids of their ends, the bare label and the two
\* flags, and its root id
ValueOf(g) ==
  [nodes |-> [k \in DOMAIN g.nodeMap |->
                With(g.nodeObjs[g.nodeMap[k]], LAMBDA n :
                  [id |-> n.id, label |-> n.label, meta |-> n.meta])],
   edges |-> [k \in DOMAIN g.edgeMap |->
                With(g.edgeMap[k], LAMBDA h :
                  [id |-> g.edgeObjs[h].id,
                   from |-> g.nodeObjs[g.edgeObjs[h].from].id,
                   to |-> g.nodeObjs[g.edgeObjs[h].to].id,
                   label |-> g.edgeObjs[h].label,
                   isBroadcasting |-> g.edgeObjs[h].isBroadcasting,
                   isListening |-> g.edgeObjs[h].isListening])],
   rootId |-> g.rootId]

\* C27: deepClone returns a graph equal in value to the original: the same
\* node ids with the same labels and meta data, the same edge ids with the
\* same ends, bare labels and broadcast / listen flags, and the same root
\* id.
C27_CloneEqualInValue ==
  res.op = "deepClone" =>
    res.clone.err = "none" /\ ValueOf(res.clone) = ValueOf(graph)

(***************************************************************************)
(* Part V.  The driver of src/app/scripts/app.js                           *)
(*                                                                         *)
(* The application is the record res:                                      *)
(*   editor       the text of the editor, a sequence of characters         *)
(*   settings     app.settings                                             *)
(*   previousCode app.previousCode                                         *)
(*   automata     app.automata: <<>> or the parser call that produced it   *)
(*   debounce     the pending 'compile' job of app.debounce, with the      *)
(*                overrideBuild of the last call                           *)
(*   timeouts     the callbacks setTimeout(.., 0) has queued, in order     *)
(*   parsed       the arguments of the last call of app.$.parser.parse     *)
(*   event        what the last step was, paths the settings it changed    *)
(* The console and the annotations of the editor are not held.             *)
(***************************************************************************)

\* app.getCode(): the text without its blanks and its empty lines, every
\* line ended by a line break
RECURSIVE GetCodeLoop(_, _, _)
GetCodeLoop(text, line, code) ==
  IF text = <<>>
    THEN IF line = <<>> THEN code ELSE code \o line \o <<"\n">>
  ELSE IF Head(text) = "\n"
    THEN GetCodeLoop(Tail(text), <<>>,
                     IF line = <<>> THEN code ELSE code \o line \o <<"\n">>)
  ELSE GetCodeLoop(Tail(text), Append(line, Head(text)), code)

getCode(app) ==
  GetCodeLoop(SelectSeq(app.editor, LAMBDA c : c # " "), <<>>, <<>>)

\* app.compile(overrideBuild): app.debounce('compile', ..) keeps one job,
\* that of the last call
compile(app, overrideBuild) ==
  [app EXCEPT !.debounce = [pending |-> TRUE, overrideBuild |-> overrideBuild]]

\* app.set(path, value) and the 'settings-changed' listener, which hears of
\* a value that changes
SetSetting(app, path, value) ==
  IF app.settings[path] = value THEN app
  ELSE With([app EXCEPT !.settings[path] = value, !.paths = @ \cup {path}],
            LAMBDA a :
              IF path = "fairAbstraction" THEN compile(a, FALSE)
              ELSE IF a.settings.liveCompiling THEN compile(a, FALSE)
              ELSE a)

\* app.onSettingsClosed() with the 'ok' button clicked
onSettingsClosed(app, liveCompiling, liveBuilding, fairAbstraction) ==
  SetSetting(SetSetting(SetSetting([app EXCEPT !.paths = {}],
                                   "liveCompiling", liveCompiling),
                        "liveBuilding", liveBuilding),
             "fairAbstraction", fairAbstraction)

\* The callback of setTimeout in app.compile; automata tells whether the
\* parser returns automata or throws
CompileCallback(app, overrideBuild, automata) ==
  With(getCode(app), LAMBDA code :
    IF ~overrideBuild /\ code = <<>>
      THEN [app EXCEPT !.automata = <<>>, !.previousCode = <<>>,
                       !.event = "nothing to parse"]
    ELSE IF ~overrideBuild /\ code = app.previousCode
      THEN [app EXCEPT !.event = "not changed"]
    ELSE With([code |-> app.editor,
               liveBuilding |-> app.settings.liveBuilding,
               fairAbstraction |-> app.settings.fairAbstraction],
              LAMBDA call :
                [app EXCEPT
                   !.previousCode = code,
                   !.parsed = <<call>>,
                   !.event = "parse",
                   !.timeouts =
                      IF ~automata THEN @
                      ELSE @ \o (IF app.settings.liveBuilding \/ overrideBuild
                                   THEN <<[kind |-> "render", overrideBuild |-> FALSE,
                                           automata |-> <<call>>]>>
                                   ELSE <<>>)
                             \o <<[kind |-> "operations", overrideBuild |-> FALSE,
                                   automata |-> <<>>]>>]))

(***************************************************************************)
(* The driver under the events of a user and the callbacks of the browser  *)
(***************************************************************************)

\* The callbacks a user may leave waiting before the next event
MaxTimers == 1

\* The texts the editor holds: none, P, P with a blank, Q
Texts == {<<>>, <<"P">>, <<"P", " ">>, <<"Q">>}

InitApp ==
  /\ graph = NewGraph
  /\ calls = 0
  /\ heap = <<>>
  /\ uids = [node |-> 0, edge |-> 0]
  /\ args = <<>>
  /\ orig = <<>>
  /\ issued = [node |-> <<>>, edge |-> <<>>]
  /\ res = [op |-> "app",
            editor |-> <<>>,
            settings |-> [liveCompiling |-> TRUE, liveBuilding |-> TRUE,
                          fairAbstraction |-> TRUE],
            previousCode |-> <<>>,
            automata |-> <<>>,
            debounce |-> [pending |-> FALSE, overrideBuild |-> FALSE],
            timeouts |-> <<>>,
            parsed |-> <<>>,
            event |-> "ready",
            paths |-> {}]

AppStep(app) ==
  /\ res' = app
  /\ UNCHANGED <<graph, calls, heap, uids, args, orig, issued>>

UserActs == Len(res.timeouts) < MaxTimers

\* 'text-editor-change'
TextEditorChange ==
  /\ UserActs
  /\ \E text \in Texts \ {res.editor} :
       With([res EXCEPT !.editor = text, !.event = "text-editor-change"],
            LAMBDA app : AppStep(IF app.settings.liveCompiling
                                   THEN compile(app, FALSE) ELSE app))

\* The settings dialog is closed with 'ok'
SettingsClosed ==
  /\ UserActs
  /\ \E liveCompiling, liveBuilding, fairAbstraction \in BOOLEAN :
       AppStep(onSettingsClosed([res EXCEPT !.event = "settings-changed"],
                                liveCompiling, liveBuilding, fairAbstraction))

\* CTRL + ENTER: app.compile()
KeyDown ==
  /\ UserActs
  /\ AppStep(compile([res EXCEPT !.event = "keydown"], FALSE))

\* app.compileAndBuild()
CompileAndBuild ==
  /\ UserActs
  /\ AppStep(compile([res EXCEPT !.event = "compileAndBuild"], TRUE))

\* The debounced job runs: setTimeout(.., 0)
DebounceFires ==
  /\ res.debounce.pending
  /\ AppStep([res EXCEPT
                !.debounce = [pending |-> FALSE, overrideBuild |-> FALSE],
                !.event = "debounce",
                !.timeouts = Append(@, [kind |-> "compile",
                                        overrideBuild |-> res.debounce.overrideBuild,
                                        automata |-> <<>>])])

\* The first callback of the queue runs
TimeoutFires ==
  /\ res.timeouts # <<>>
  /\ With(Head(res.timeouts), LAMBDA t :
       With([res EXCEPT !.timeouts = Tail(@)], LAMBDA app :
         CASE t.kind = "compile" ->
                \E automata \in BOOLEAN :
                  AppStep(CompileCallback(app, t.overrideBuild, automata))
           [] t.kind = "render" ->
                AppStep([app EXCEPT !.automata = t.automata, !.event = "render"])
           [] OTHER -> AppStep([app EXCEPT !.event = "operations"])))

NextApp ==
  \/ TextEditorChange \/ SettingsClosed \/ KeyDown \/ CompileAndBuild
  \/ DebounceFires \/ TimeoutFires

SpecApp == InitApp /\ [][NextApp]_vars

\* The browser runs every callback that waits; a user may stop at any time
SpecAppLive == SpecApp /\ WF_vars(DebounceFires) /\ WF_vars(TimeoutFires)

\* C28: whenever the fairAbstraction setting changes while the editor holds
\* code that is not empty, a compile eventually runs the parser on the code
\* of the editor with the fairAbstraction value of the settings (unless the
\* code is deleted first), also when the code is that of the compile
\* before.
C28_SettingChangeRecompiles ==
  (/\ res.event = "settings-changed"
   /\ "fairAbstraction" \in res.paths
   /\ getCode(res) # <<>>)
    ~> (\/ getCode(res) = <<>>
        \/ /\ res.event = "parse"
           /\ res.parsed[1].code = res.editor
           /\ res.parsed[1].fairAbstraction = res.settings.fairAbstraction)

\* The nodes reached from the nodes S of g by one hidden edge or more
RECURSIVE HiddenReach(_, _, _)
HiddenReach(g, S, seen) ==
  With({g.edgeMap[e].to : e \in {x \in DOMAIN g.edgeMap :
                                   g.edgeMap[x].isHidden /\ g.edgeMap[x].from \in S}},
       LAMBDA next : IF next \subseteq seen THEN seen
                     ELSE HiddenReach(g, next \ seen, seen \cup next))

\* g has no cycle of hidden edges
NoHiddenCycle(g) == \A n \in DOMAIN g.nodeMap : n \notin HiddenReach(g, {n}, {})

\* C29: the unfair abstraction introduces a deadlock edge and an error node
\* only for cycles of hidden edges: for a graph without such a cycle (two
\* hidden paths that meet again, say) the result has no deadlock edge and no
\* node tagged error that the graph did not already have.
C29_DeadlockOnlyForHiddenCycles ==
  res.op = "abstraction" /\ ~res.isFair /\ NoHiddenCycle(orig[1]) =>
    /\ \A e \in DOMAIN heap[res.ref].edgeMap :
         heap[res.ref].edgeMap[e].isDeadlock =>
           e \in DOMAIN orig[1].edgeMap /\ orig[1].edgeMap[e].isDeadlock
    /\ \A n \in DOMAIN heap[res.ref].nodeMap :
         heap[res.ref].nodeMap[n].meta.isTerminal = "error" =>
           /\ n \in DOMAIN orig[1].nodeMap
           /\ orig[1].nodeMap[n].meta.isTerminal = "error"

(***************************************************************************)
(* isEquivalent on a graph and on the same graph under other node ids      *)
(***************************************************************************)

RenMaxNodes == 2

RenMaxEdges == 2

\* A first graph, a second one built after it with the node ids that
\* follow, and the second one again with node ids from d on, which are ids
\* of the first graph too (as after NodeUid.reset(), and d = 0 as for a
\* deepClone of a graph with the shape of the second)
InitRename ==
  \E g1 \in Graphs(0, 0, RenMaxNodes, RenMaxEdges, {Visible("a"), Visible("b")}, {""}) :
    \E n \in 1 .. RenMaxNodes, k \in 0 .. RenMaxEdges, d \in 0 .. g1.nodeCount - 1 :
      \E es \in [1 .. k -> [from : 0 .. n - 1, to : 0 .. n - 1,
                            kind : {Visible("a"), Visible("b")}]] :
        With(BuildLts(g1.nodeCount, [i \in 1 .. n |-> ""], g1.edgeCount, es), LAMBDA g2 :
          With(BuildLts(d, [i \in 1 .. n |-> ""], g1.edgeCount, es), LAMBDA renamed :
            /\ Connected(g2)
            /\ heap = <<g1, g2, renamed>>
            /\ orig = <<g1, g2, renamed>>
            /\ args = <<1, 2>>
            /\ res = [op |-> "none", isFair |-> FALSE, ref |-> 0, value |-> FALSE,
                      product |-> NewLts, changes |-> 0]
            /\ uids = [node |-> g1.nodeCount + n, edge |-> g1.edgeCount + k]
            /\ graph = NewGraph
            /\ calls = 0
            /\ issued = [node |-> <<>>, edge |-> <<>>]))

\* The call again, the second graph under its other node ids; before is
\* what the first call returned
IsEquivalentRenamed ==
  /\ res.op = "isEquivalent"
  /\ With(isEquivalent(heap, <<1, 3>>), LAMBDA r :
        /\ heap' = r.heap
        /\ args' = <<1, 3>>
        /\ res' = [op |-> "isEquivalentRenamed", value |-> r.value,
                   before |-> res.value])
  /\ UNCHANGED <<graph, calls, orig, uids, issued>>

NextRename == IsEquivalent \/ IsEquivalentRenamed

SpecRename == InitRename /\ [][NextRename]_vars

\* C30: what isEquivalent returns depends on the structure of the graphs
\* alone, not on how their nodes are numbered: with the node ids of one
\* graph renamed, also to ids another graph uses, it returns the same.
C30_RenamingKeepsResult ==
  res.op = "isEquivalentRenamed" => res.value = res.before

=============================================================================
